---- MODULE Spec2Model ----
(***************************************************************************)
(* Kernel session manager of sandbox-mcp (src/src/services).               *)
(*                                                                         *)
(* The service runs on one asyncio event loop: the code between two       *)
(* suspension points (an await that really waits: worker I/O, a lock that *)
(* is held, a download) runs without interleaving.  Each action below is  *)
(* one such segment of a coroutine.  Acquiring pool_lock is always a      *)
(* point where another task may run, which includes every schedule the    *)
(* event loop can produce.                                                *)
(***************************************************************************)
EXTENDS Integers, Sequences, FiniteSets, TLC

\* ---------------------------------------------------------------- bounds
MaxObj == 4       \* KernelSession objects constructed in one run
MaxTime == 1      \* readings of time.time() (clock ticks)
NumCalls == 2     \* client calls in flight at once
NumIds == 3       \* distinct client session ids
MaxCount == 2     \* cap on execution_count of one session
MaxFaults == 1    \* operations of the environment (worker start, chdir, file removal) that fail in one run
MaxEvents == 3    \* client calls, failures and clock ticks in one run, together
MaxKernels == 2   \* largest settings.max_kernels (MAX_KERNELS) the service is run with
MaxLoopTime == 3  \* clock ticks (seconds) while Execution Loops are followed message by message
MaxExecs == 2     \* submissions to one worker
MaxOut == 1       \* messages a worker emits for one submission before its status idle
MaxFileIds == 2   \* distinct file ids clients supply
MaxNames == 2     \* distinct filenames downloads produce
MaxItems == 2     \* files in one acquire request
MaxFileEvents == 2 \* acquire calls on, and removals of files from, one working directory
NumGwIds == 2      \* session ids the gateway's clients name
MaxGwKernels == 3  \* kernels the gateway constructs
MaxMsgs == 2       \* kernel messages and silent seconds of one execution
MaxUrls == 2       \* urls given to one _process_file_urls call
MaxSaves == 3      \* mutating operations on one SessionFileConfig

\* ---------------------------------------------------------- configuration
\* settings.session_pool_size (SESSION_POOL_SIZE), run here with 1
session_pool_size == 1
\* settings.kernel_timeout (KERNEL_TIMEOUT), in clock ticks
kernel_timeout == 0
\* settings.max_execution_time (MAX_EXECUTION_TIME), in seconds, run here with 2
max_execution_time == 2
\* the timeout argument of execute_code when the caller gives none (None)
None == 0 - 1

Obj == 1..MaxObj
Calls == 1..NumCalls
Ids == 1..NumIds
NoObj == 0
PoolName == 0
FileIds == 1..MaxFileIds
Names == 1..MaxNames
NoName == 0
Free == 0
RefillTask == 0 - 1
StartTask == 0 - 2
StopTask == 0 - 3

VARIABLES
    sessions,       \* KernelManagerService.sessions: <<id, object>> in insertion order
    session_pool,   \* KernelManagerService.session_pool: sequence of objects
    pool_lock,      \* holder of _pool_lock, Free when unlocked
    ks,             \* the KernelSession objects, by identity
    nobj,           \* number of KernelSession objects constructed so far
    now,            \* time.time()
    calls,          \* the client calls in flight, each with its position
    refill,         \* the _pool_refill_loop task
    cleanup,        \* the _cleanup_loop task
    svc,            \* lifecycle of the service: start() and its pool priming
    ops,            \* number of client calls made so far
    nids,           \* number of distinct session ids clients have named so far
    faults,         \* number of environment failures so far
    max_kernels,    \* settings.max_kernels, fixed when the process starts
    iopub,          \* the messages on a session's output channel, not yet read
    worker,         \* the worker process: the submission it runs, the ones queued
    exec,           \* the locals of each execute_code call, and what it has yielded
    emitted,        \* what the worker has emitted, by submission
    disk,           \* the working directories '/tmp/sandbox_sessions/<id>': files, manifest
    acq,            \* the locals of each call while it processes its files
    kernel_msgs,    \* gateway: what the kernel of the executing session will publish
    gw_stream,      \* gateway: the streaming execution (POST /execute)
    gw_sync,        \* gateway: the synchronous execution (POST /execute_sync)
    gw_sessions,    \* gateway: KernelManagerService.sessions of sandbox_mcp
    gw_kernels,     \* gateway: the kernels of the sessions it has constructed
    config_path,    \* the file '.session_files.json' of one session directory
    session_config, \* one SessionFileConfig object in memory, and its position
    target_dir,     \* the files of the directory a download writes to
    download,       \* the download_file call in flight
    urls            \* the _process_file_urls call: its list, results and errors

vars == <<sessions, session_pool, pool_lock, ks, nobj, now, calls, refill, cleanup, svc, ops, nids, faults, max_kernels,
         iopub, worker, exec, emitted, disk, acq,
         kernel_msgs, gw_stream, gw_sync, gw_sessions, gw_kernels,
         config_path, session_config, target_dir, download, urls>>

loopVars == <<iopub, worker, exec, emitted>>

fileVars == <<disk, acq>>

gatewayVars == <<kernel_msgs, gw_stream, gw_sync, gw_sessions, gw_kernels>>

storeVars == <<config_path, session_config, target_dir, download, urls>>

\* ------------------------------------------------------------ KernelSession

Blank ==
    [st |-> "none", is_busy |-> FALSE, execution_count |-> 0,
     last_activity |-> 0, stops |-> 0, session_id |-> 0, user_ns |-> FALSE]

\* KernelSession.__init__: kernel_client is None (st "new") until start()
\* A session made for the pool is named "pool_<uuid>" (_create_pool_session L77):
\* session_id PoolName, which is no client's id.
NewSession(t) ==
    [st |-> "new", is_busy |-> FALSE, execution_count |-> 0,
     last_activity |-> t, stops |-> 0, session_id |-> PoolName, user_ns |-> FALSE]

\* create_session_with_files L279-284 and L303-306: the session carries the
\* client's id, and its kernel_manager.cwd is the directory named after it
Bound(k, id) == [k EXCEPT !.session_id = id]

\* kernel_manager.cwd: '/tmp/sandbox_sessions/<session_id>' (L78, L245)
cwd(k) == k.session_id

\* KernelSession.created_at L21, time.time() at construction.  The event loop
\* constructs one session at a time and the clock moves on between two
\* constructions, so created_at orders the sessions as their construction does:
\* it is the construction number, which is the object's identity here.
created_at(o) == o

\* KernelSession.start: the kernel runs and kernel_client is set
Started(k) == [k EXCEPT !.st = "running"]

\* KernelSession.stop: channels stopped, kernel shut down, directory removed
Stopped(k) == [k EXCEPT !.st = "stopped", !.stops = @ + 1]

\* A touch that leaves last_activity as it was
ActivityUnchanged(k, t) == k

\* KernelSession.update_activity
update_activity(k, t) == [k EXCEPT !.last_activity = t]

\* KernelSession.is_idle_timeout
is_idle_timeout(k, t) == t - k.last_activity > kernel_timeout

\* ------------------------------------------------- the sessions dictionary

Keys(m) == {m[i][1] : i \in 1..Len(m)}
Values(m) == {m[i][2] : i \in 1..Len(m)}
HasKey(m, id) == id \in Keys(m)
Get(m, id) == m[CHOOSE i \in 1..Len(m) : m[i][1] = id][2]
\* A pop that leaves the entry in the dictionary
DictPopKeepsEntry(m, id) == m

DictPop(m, id) == SelectSeq(m, LAMBDA e : e[1] # id)
DictPut(m, id, s) ==
    IF HasKey(m, id)
    THEN [i \in 1..Len(m) |-> IF m[i][1] = id THEN <<id, s>> ELSE m[i]]
    ELSE Append(m, <<id, s>>)

\* ------------------------------------------------------------------ calls

IdleCall == [op |-> "none", pc |-> "idle", id |-> 0, s |-> NoObj, rel |-> NoObj,
             files |-> FALSE, ret |-> "none", count0 |-> 0]

\* execute_code's locals before the call has submitted anything
NoExec == [timeout |-> None, execution_timeout |-> 0, start_time |-> 0, msg_id |-> 0,
           wait_from |-> 0, out |-> <<>>, interrupts |-> 0, polled |-> FALSE,
           overdue |-> FALSE, read_failed |-> FALSE]

\* SessionFileConfig._config with no entry (session_config.py L24)
NoConfig == [f \in FileIds |-> NoName]

\* A directory that does not exist
NoDir == [exists |-> FALSE, files |-> {}, manifest |-> NoConfig, subdirs |-> FALSE]

\* The locals of create_session_with_files and _process_files_with_id before
\* the call has opened a directory
NoAcq == [config |-> NoConfig, downloaded_files |-> <<>>, errors |-> 0, todo |-> <<>>,
          purged |-> FALSE]

\* The directory a call works on: the cwd of its session
Dir(c) == cwd(ks[calls[c].s])

\* A directory with nothing in it but an empty manifest
CleanDir == [exists |-> TRUE, files |-> {}, manifest |-> NoConfig, subdirs |-> FALSE]

\* os.makedirs(session_dir, exist_ok=True) for the directory of id
makedirs(dk, id) == [dk EXCEPT ![id].exists = TRUE]

\* The working directory of session k exists (the directories of the pool's
\* own ids, 'pool_<uuid>', are only removed with their session)
DirExists(dk, k) == cwd(k) \in Ids => dk[cwd(k)].exists

\* KernelSession.stop L113-119: shutil.rmtree(self.kernel_manager.cwd)
rmtree(dk, k) ==
    IF cwd(k) \in Ids THEN [dk EXCEPT ![cwd(k)] = NoDir] ELSE dk

\* _return_session_to_pool L108-118: the entries of the session's directory
\* that are regular files (os.path.isfile) are removed, and the manifest is
\* cleared and saved; a sub-directory stays, with the files in it
ClearForPool(dk, k) ==
    IF cwd(k) \in Ids THEN [dk EXCEPT ![cwd(k)] = [CleanDir EXCEPT !.subdirs = dk[cwd(k)].subdirs]] ELSE dk

\* The downloads of a call into the directory of id are over; got: one of them
\* wrote a file (a file item, which add_file L72-81 enters in the manifest)
Downloaded(dk, id, got) ==
    IF got THEN [dk EXCEPT ![id] = [@ EXCEPT !.files = @ \cup {1}, !.manifest[1] = 1]]
    ELSE dk

\* A call that is done hands its result to its caller before anything else runs:
\* the hand-over touches nothing another task reads.
Quiet == \A c \in Calls : calls[c].pc # "done"

\* The run can take one more input of the environment: a client call, a
\* failure, a clock tick.
Budget == ops + faults + now < MaxEvents

\* A client call with session id `id` enters, as call c: the first free slot.
\* Ids are opaque strings: the ids are numbered in the order clients first name
\* them, so a call names an id already named, or the next one.
Enter(c, id) ==
    /\ calls[c].pc = "idle"
    /\ \A d \in 1..(c - 1) : calls[d].pc # "idle"
    /\ Budget
    /\ ops' = ops + 1
    /\ id <= nids + 1
    /\ nids' = IF id = nids + 1 THEN id ELSE nids

\* The objects something still refers to: the dictionary, the pool, a call's
\* locals (except those of call `but`, which is returning), the tasks' locals.
Live(m, pool, cs, but, rf, cl, sv) ==
    Values(m) \cup {pool[i] : i \in 1..Len(pool)}
        \cup {cs[c].s : c \in Calls \ {but}} \cup {cs[c].rel : c \in Calls \ {but}}
        \cup {rf.cur, cl.cur, sv.cur} \cup {sv.todo[i] : i \in 1..Len(sv.todo)}

\* An object nothing refers to any more keeps only what its worker is (st, stops):
\* its other fields can never be read again.
Collect(k, live) ==
    [o \in Obj |-> IF o \in live THEN k[o]
                   ELSE [Blank EXCEPT !.st = k[o].st, !.stops = k[o].stops]]

\* ---- values of the gateway (sandbox_mcp) and of the stores while unused ----

GwIds == 1..NumGwIds
NoKernel == 0

\* a KernelSession of sandbox_mcp/kernel_manager.py, as an execution sees it:
\* is_busy, execution_count, and whether update_activity() has been called
IdleSession == [is_busy |-> FALSE, execution_count |-> 0, touched |-> FALSE]

\* One execution of the gateway: its position, the index of the next kernel
\* message it reads, what it has produced so far, whether it interrupted the
\* kernel, whether constructing its session fails, and its session.
NoResponse == [status |-> "none", texts |-> <<>>, images |-> <<>>, errors |-> <<>>]
NoRun ==
    [pc |-> "idle", pos |-> 1, out |-> <<>>, interrupts |-> 0, fails |-> FALSE,
     response |-> NoResponse, session |-> IdleSession]

GatewayUnused ==
    /\ kernel_msgs = <<>>
    /\ gw_stream = NoRun
    /\ gw_sync = NoRun
    /\ gw_sessions = [id \in GwIds |-> NoKernel]
    /\ gw_kernels = <<>>

\* The manifest file: absent, whole (a complete JSON document, doc) or torn
\* (truncated or partly written: not a JSON document)
NoFile == [state |-> "absent", doc |-> {}]
WholeFile(doc) == [state |-> "whole", doc |-> doc]
TornFile == [state |-> "torn", doc |-> {}]

\* A SessionFileConfig object: its _config, its position inside _save_config,
\* the file as it was when the last mutating operation began and the file
\* that operation is to leave
NoObject == [pc |-> "none", _config |-> NoConfig, before |-> NoFile, after |-> NoFile]

\* A download_file call: its position, the url it fetches, the local
\* `filename`, the pair it returns, and the directory as it was at the call
NoReply == [status |-> 0, name |-> NoName, breaks |-> FALSE]
NoDownload ==
    [pc |-> "idle", url |-> NoReply, filename |-> NoName, ret_filename |-> NoName, ret_error |-> FALSE,
     before |-> [n \in Names |-> "absent"]]

\* A _process_file_urls call: the urls left, the number it was given, the
\* caller's downloaded_files and its own errors
NoUrls == [pc |-> "idle", file_urls |-> <<>>, given |-> 0, downloaded_files |-> <<>>, errors |-> 0]

StoreUnused ==
    /\ config_path = NoFile
    /\ session_config = NoObject
    /\ target_dir = [n \in Names |-> "absent"]
    /\ download = NoDownload
    /\ urls = NoUrls


\* An operation of the environment ends; failed: it raised.
Fault(failed) ==
    IF failed THEN Budget /\ faults < MaxFaults /\ faults' = faults + 1
    ELSE faults' = faults

Init ==
    /\ sessions = <<>>
    /\ session_pool = <<>>
    /\ pool_lock = Free
    /\ ks = [o \in Obj |-> Blank]
    /\ nobj = 0
    /\ now = 0
    /\ calls = [c \in Calls |-> IdleCall]
    /\ refill = [pc |-> "sleep", left |-> 0, cur |-> NoObj]
    /\ cleanup = [pc |-> "sleep", to_remove |-> <<>>, cur |-> NoObj]
    /\ svc = [pc |-> "constructed", left |-> 0, cur |-> NoObj, todo |-> <<>>]
    /\ ops = 0
    /\ nids = 0
    /\ faults = 0
    /\ max_kernels \in 1..MaxKernels
    /\ iopub = <<>>
    /\ worker = [cur |-> 0, left |-> 0, queue |-> <<>>]
    /\ exec = [c \in Calls |-> NoExec]
    /\ emitted = [m \in 1..MaxExecs |-> <<>>]
    /\ disk = [d \in Ids |-> NoDir]
    /\ acq = [c \in Calls |-> NoAcq]
    /\ GatewayUnused
    /\ StoreUnused

\* time.time() advances
Tick ==
    /\ Quiet
    /\ now < MaxTime
    /\ Budget
    /\ now' = now + 1
    /\ UNCHANGED <<sessions, session_pool, pool_lock, ks, nobj, calls, refill, cleanup, svc, ops, nids, faults, max_kernels, gatewayVars, storeVars>>
    /\ UNCHANGED loopVars
    /\ UNCHANGED fileVars

\* -------------------------------------------------- start() and pool priming

\* start() L32-36, _initialize_session_pool L66-69: the two background tasks are
\* created, the lock is taken and the first pool session is constructed
\* (_create_pool_session L77-84) and its start() awaited.
StartService ==
    /\ Quiet
    /\ svc.pc = "constructed"
    /\ pool_lock = Free
    /\ IF session_pool_size > 0
       THEN /\ nobj < MaxObj
            /\ pool_lock' = StartTask
            /\ nobj' = nobj + 1
            /\ ks' = [ks EXCEPT ![nobj + 1] = NewSession(now)]
            /\ svc' = [pc |-> "priming", left |-> session_pool_size, cur |-> nobj + 1, todo |-> <<>>]
       ELSE /\ svc' = [pc |-> "running", left |-> 0, cur |-> NoObj, todo |-> <<>>]
            /\ UNCHANGED <<pool_lock, nobj, ks>>
    /\ UNCHANGED <<sessions, session_pool, now, calls, refill, cleanup, ops, nids, faults, max_kernels, gatewayVars, storeVars>>
    /\ UNCHANGED loopVars
    /\ UNCHANGED fileVars

\* _initialize_session_pool L67-73, one iteration ends: ok = session.start()
\* returned and the session is appended; otherwise the error is logged.  Either
\* way the loop goes on to the next i, and releases the lock after the last.
PrimeStep(ok) ==
    /\ Quiet
    /\ svc.pc = "priming"
    /\ LET pool1 == IF ok THEN Append(session_pool, svc.cur) ELSE session_pool
           ks1 == IF ok THEN [ks EXCEPT ![svc.cur] = Started(@)]
                  ELSE Collect(ks, Live(sessions, session_pool, calls, 0, refill, cleanup, svc)
                                      \ {svc.cur})
       IN /\ session_pool' = pool1
          /\ IF svc.left > 1
             THEN /\ nobj < MaxObj
                  /\ nobj' = nobj + 1
                  /\ ks' = [ks1 EXCEPT ![nobj + 1] = NewSession(now)]
                  /\ svc' = [svc EXCEPT !.left = @ - 1, !.cur = nobj + 1]
                  /\ UNCHANGED pool_lock
             ELSE /\ ks' = ks1
                  /\ svc' = [pc |-> "running", left |-> 0, cur |-> NoObj, todo |-> <<>>]
                  /\ pool_lock' = Free
                  /\ UNCHANGED nobj
    /\ Fault(~ok)
    /\ UNCHANGED <<sessions, now, calls, refill, cleanup, ops, nids, max_kernels, gatewayVars, storeVars>>
    /\ UNCHANGED loopVars
    /\ UNCHANGED fileVars

\* ------------------------------------------------------------ pool refill

\* _pool_refill_loop L136-137, _refill_session_pool L145-155: after the sleep the
\* task takes the lock, reads the pool size and, when below target, constructs
\* the first session and awaits its start() with the lock held.
RefillTick ==
    /\ Quiet
    /\ svc.pc # "constructed"
    /\ refill.pc = "sleep"
    /\ pool_lock = Free
    /\ IF Len(session_pool) < session_pool_size
       THEN /\ nobj < MaxObj
            /\ pool_lock' = RefillTask
            /\ nobj' = nobj + 1
            /\ ks' = [ks EXCEPT ![nobj + 1] = NewSession(now)]
            /\ refill' = [pc |-> "creating",
                          left |-> session_pool_size - Len(session_pool),
                          cur |-> nobj + 1]
       ELSE UNCHANGED <<pool_lock, nobj, ks, refill>>
    /\ UNCHANGED <<sessions, session_pool, now, calls, cleanup, svc, ops, nids, faults, max_kernels, gatewayVars, storeVars>>
    /\ UNCHANGED loopVars
    /\ UNCHANGED fileVars

\* _refill_session_pool L153-157: the session started; it is appended and the
\* loop constructs the next one, or releases the lock after the last.
RefillCreated ==
    /\ Quiet
    /\ refill.pc = "creating"
    /\ session_pool' = Append(session_pool, refill.cur)
    /\ IF refill.left > 1
       THEN /\ nobj < MaxObj
            /\ nobj' = nobj + 1
            /\ ks' = [ks EXCEPT ![refill.cur] = Started(@), ![nobj + 1] = NewSession(now)]
            /\ refill' = [refill EXCEPT !.left = @ - 1, !.cur = nobj + 1]
            /\ UNCHANGED pool_lock
       ELSE /\ ks' = [ks EXCEPT ![refill.cur] = Started(@)]
            /\ refill' = [pc |-> "sleep", left |-> 0, cur |-> NoObj]
            /\ pool_lock' = Free
            /\ UNCHANGED nobj
    /\ UNCHANGED <<sessions, now, calls, cleanup, svc, ops, nids, faults, max_kernels, gatewayVars, storeVars>>
    /\ UNCHANGED loopVars
    /\ UNCHANGED fileVars

\* _refill_session_pool L158-160: creating a session raised; break, lock released.
RefillFailed ==
    /\ Quiet
    /\ refill.pc = "creating"
    /\ refill' = [pc |-> "sleep", left |-> 0, cur |-> NoObj]
    /\ pool_lock' = Free
    /\ ks' = Collect(ks, Live(sessions, session_pool, calls, 0, refill', cleanup, svc))
    /\ Fault(TRUE)
    /\ UNCHANGED <<sessions, session_pool, nobj, now, calls, cleanup, svc, ops, nids, max_kernels, gatewayVars, storeVars>>
    /\ UNCHANGED loopVars
    /\ UNCHANGED fileVars

\* ------------------------------------------------------------ idle cleanup

\* _cleanup_idle_sessions L439-443: the ids of the sessions to remove, in
\* dictionary order.
IdleIds(m, k, t) ==
    LET hit == SelectSeq(m, LAMBDA e : ~k[e[2]].is_busy /\ is_idle_timeout(k[e[2]], t))
    IN [i \in 1..Len(hit) |-> hit[i][1]]

\* _cleanup_loop L430-431, _cleanup_idle_sessions L439-447: the scan, then the
\* first pop; the task then awaits that session's stop().
CleanupTick ==
    /\ Quiet
    /\ svc.pc # "constructed"
    /\ cleanup.pc = "sleep"
    /\ LET ids == IdleIds(sessions, ks, now)
       IN IF ids = <<>>
          THEN UNCHANGED <<sessions, cleanup>>
          ELSE /\ sessions' = DictPop(sessions, Head(ids))
               /\ cleanup' = [pc |-> "stopping", to_remove |-> Tail(ids),
                              cur |-> Get(sessions, Head(ids))]
    /\ UNCHANGED <<session_pool, pool_lock, ks, nobj, now, calls, refill, svc, ops, nids, faults, max_kernels, gatewayVars, storeVars>>
    /\ UNCHANGED loopVars
    /\ UNCHANGED fileVars

\* _cleanup_idle_sessions L445-448: stop() returned; the next id is popped (a
\* KeyError when it is gone, which _cleanup_loop L434 logs, ending the tick).
CleanupStopped ==
    /\ Quiet
    /\ cleanup.pc = "stopping"
    /\ IF cleanup.to_remove # <<>> /\ HasKey(sessions, Head(cleanup.to_remove))
       THEN /\ sessions' = DictPop(sessions, Head(cleanup.to_remove))
            /\ cleanup' = [pc |-> "stopping", to_remove |-> Tail(cleanup.to_remove),
                           cur |-> Get(sessions, Head(cleanup.to_remove))]
       ELSE /\ cleanup' = [pc |-> "sleep", to_remove |-> <<>>, cur |-> NoObj]
            /\ UNCHANGED sessions
    /\ ks' = Collect([ks EXCEPT ![cleanup.cur] = Stopped(@)],
                     Live(sessions, session_pool, calls, 0, refill, cleanup', svc))
    /\ UNCHANGED <<session_pool, pool_lock, nobj, now, calls, refill, svc, ops, nids, faults, max_kernels, gatewayVars, storeVars>>
    /\ UNCHANGED loopVars
    /\ disk' = rmtree(disk, ks[cleanup.cur])
    /\ UNCHANGED acq

\* KernelSession.stop L108-110 raised (stop_channels or shutdown_kernel): the
\* working directory is not removed, and whether the worker runs is not known
StopRaised(k, step) == [k EXCEPT !.st = step, !.stops = @ + 1]

\* The steps of KernelSession.stop that let their exception through: L109
\* kernel_client.stop_channels(), L110 kernel_manager.shutdown_kernel()
StopSteps == {"stop_channels raised", "shutdown_kernel raised"}

\* _cleanup_idle_sessions L445-447, _cleanup_loop L434-435: session.stop()
\* raised; nothing in the for loop catches it, the tick ends there and the
\* loop logs the error and sleeps.
CleanupStopFails(step) ==
    /\ Quiet
    /\ cleanup.pc = "stopping"
    /\ cleanup' = [pc |-> "sleep", to_remove |-> <<>>, cur |-> NoObj]
    /\ ks' = Collect([ks EXCEPT ![cleanup.cur] = StopRaised(@, step)],
                     Live(sessions, session_pool, calls, 0, refill, cleanup', svc))
    /\ Fault(TRUE)
    /\ UNCHANGED <<sessions, session_pool, pool_lock, nobj, now, calls, refill, svc, ops, nids, max_kernels, gatewayVars, storeVars>>
    /\ UNCHANGED loopVars
    /\ UNCHANGED fileVars

\* ---------------------------------------------------- releasing a session

\* The entry with the least created_at of all sessions, busy or not
OldestOfAll(m, k) ==
    IF m = <<>> THEN <<>>
    ELSE m[CHOOSE i \in 1..Len(m) :
             \A j \in 1..Len(m) : created_at(m[i][2]) <= created_at(m[j][2])]

\* _cleanup_oldest_session L452-461: the entry <<id, object>> of the first
\* session, in dictionary order, with the least created_at among those not busy
\* (min() keeps the first of equal keys); <<>> when every session is busy.
OldestIdle(m, k) ==
    LET idle == SelectSeq(m, LAMBDA e : ~k[e[2]].is_busy)
    IN IF idle = <<>> THEN <<>>
       ELSE idle[CHOOSE i \in 1..Len(idle) :
                    /\ \A j \in 1..Len(idle) :
                          created_at(idle[i][2]) <= created_at(idle[j][2])
                    /\ \A j \in 1..(i - 1) :
                          created_at(idle[j][2]) > created_at(idle[i][2])]

\* A room test that lets in one session more than the target
PoolHasRoomInclusive(pool) == Len(pool) <= session_pool_size

\* _return_session_to_pool L101: there is room in the pool
PoolHasRoom(pool) == Len(pool) < session_pool_size

\* _return_session_to_pool L103-105: the reset of a session going back
ResetForPool(k, t) ==
    update_activity([k EXCEPT !.execution_count = 0, !.is_busy = FALSE], t)

\* Where a call goes on after its release of a session is over:
\* terminate_session L488-489 returns True, create_session_with_files goes on
\* to L275.
AfterRelease(call) ==
    IF call.op = "terminate"
    THEN [call EXCEPT !.pc = "done", !.ret = "true"]
    ELSE [call EXCEPT !.pc = "get_pool"]

\* _return_session_to_pool L100-130 up to its first await, for the session
\* call c released (terminate_session L485, _cleanup_oldest_session L465).
\* cleaned: removing the files and clearing the manifest (L109-118) did not raise.
ReturnToPool(c, cleaned) ==
    /\ Quiet
    /\ calls[c].pc = "return_pool"
    /\ pool_lock = Free
    /\ IF PoolHasRoom(session_pool)
       THEN /\ ks' = [ks EXCEPT ![calls[c].rel] = ResetForPool(@, now)]
            /\ IF cleaned
               THEN /\ DirExists(disk, ks[calls[c].rel])
                    /\ disk' = ClearForPool(disk, ks[calls[c].rel])
                    /\ session_pool' = Append(session_pool, calls[c].rel)
                    /\ calls' = [calls EXCEPT ![c] = AfterRelease(@)]
                    /\ UNCHANGED pool_lock
               ELSE /\ pool_lock' = c
                    /\ calls' = [calls EXCEPT ![c].pc = "stop_locked"]
                    /\ UNCHANGED <<session_pool, disk>>
            \* os.listdir raises for a directory that is gone; anything else
            \* that raises is a failure of the environment
            /\ Fault(~cleaned /\ DirExists(disk, ks[calls[c].rel]))
       ELSE /\ cleaned      \* nothing is cleaned on this path: one transition
            /\ pool_lock' = c
            /\ calls' = [calls EXCEPT ![c].pc = "stop_locked"]
            /\ UNCHANGED <<ks, session_pool, disk, faults>>
    /\ UNCHANGED <<sessions, nobj, now, refill, cleanup, svc, ops, nids, max_kernels, gatewayVars, storeVars>>
    /\ UNCHANGED loopVars
    /\ UNCHANGED acq

\* _return_session_to_pool L125-126 and L129-130: session.stop() returned, the
\* lock is released and False goes back to the caller, which awaits
\* session.stop() itself (L466, L486).
StopLockedDone(c) ==
    /\ Quiet
    /\ calls[c].pc = "stop_locked"
    /\ ks' = [ks EXCEPT ![calls[c].rel] = Stopped(@)]
    /\ pool_lock' = Free
    /\ calls' = [calls EXCEPT ![c].pc = "stop_again"]
    /\ UNCHANGED <<sessions, session_pool, nobj, now, refill, cleanup, svc, ops, nids, faults, max_kernels, gatewayVars, storeVars>>
    /\ UNCHANGED loopVars
    /\ disk' = rmtree(disk, ks[calls[c].rel])
    /\ UNCHANGED acq

\* _cleanup_oldest_session L466 and terminate_session L486: the caller's own
\* session.stop() returned.
StopAgainDone(c) ==
    /\ Quiet
    /\ calls[c].pc = "stop_again"
    /\ ks' = [ks EXCEPT ![calls[c].rel] = Stopped(@)]
    /\ calls' = [calls EXCEPT ![c] = AfterRelease(@)]
    /\ UNCHANGED <<sessions, session_pool, pool_lock, nobj, now, refill, cleanup, svc, ops, nids, faults, max_kernels, gatewayVars, storeVars>>
    /\ UNCHANGED loopVars
    /\ disk' = rmtree(disk, ks[calls[c].rel])
    /\ UNCHANGED acq

\* ------------------------------------------------- acquiring a session

\* create_session_with_files L244-272 for an id not in sessions, entered from
\* the API (op "acquire") or from execute_code through get_or_create_session
\* L341 (op "execute", no files): at capacity the oldest idle session is popped
\* (_cleanup_oldest_session L452-462) and the call goes to return it to the pool.
CreateEnter(c, op, id, files) ==
    /\ Quiet
    /\ svc.pc = "running"
    /\ Enter(c, id)
    /\ ~HasKey(sessions, id)
    /\ LET call == [IdleCall EXCEPT !.op = op, !.id = id, !.files = files]
           e == OldestIdle(sessions, ks)
       IN IF Len(sessions) >= max_kernels /\ e # <<>>
          THEN /\ sessions' = DictPop(sessions, e[1])
               /\ calls' = [calls EXCEPT ![c] = [call EXCEPT !.pc = "return_pool", !.rel = e[2]]]
          ELSE /\ calls' = [calls EXCEPT ![c] = [call EXCEPT !.pc = "get_pool"]]
               /\ UNCHANGED sessions
    /\ UNCHANGED <<session_pool, pool_lock, ks, nobj, now, refill, cleanup, svc, faults, max_kernels, gatewayVars, storeVars>>
    /\ UNCHANGED loopVars
    /\ UNCHANGED fileVars

\* _get_session_from_pool L91-96 and create_session_with_files L276-308: the
\* head of the pool is popped, rebound to the new id and sent the chdir, whose
\* reply the call awaits; with an empty pool a KernelSession is constructed.
GetFromPool(c) ==
    /\ Quiet
    /\ calls[c].pc = "get_pool"
    /\ pool_lock = Free
    /\ IF session_pool # <<>>
       THEN /\ session_pool' = Tail(session_pool)
            /\ calls' = [calls EXCEPT ![c].s = Head(session_pool), ![c].pc = "chdir"]
            /\ ks' = [ks EXCEPT ![Head(session_pool)] = Bound(@, calls[c].id)]
            /\ UNCHANGED nobj
       ELSE /\ nobj < MaxObj
            /\ nobj' = nobj + 1
            /\ ks' = [ks EXCEPT ![nobj + 1] = Bound(NewSession(now), calls[c].id)]
            /\ calls' = [calls EXCEPT ![c].s = nobj + 1,
                                      ![c].pc = IF calls[c].files THEN "files" ELSE "start"]
            /\ UNCHANGED session_pool
    /\ UNCHANGED <<sessions, pool_lock, now, refill, cleanup, svc, ops, nids, faults, max_kernels, gatewayVars, storeVars>>
    /\ UNCHANGED loopVars
    /\ disk' = makedirs(disk, calls[c].id)
    /\ UNCHANGED acq

\* A start of execution that counts the execution twice
BeginExecutionCountsTwice(k) == [k EXCEPT !.is_busy = TRUE, !.execution_count = @ + 2]

\* execute_code L356-357: the session is marked busy and its count incremented
BeginExecution(k) == [k EXCEPT !.is_busy = TRUE, !.execution_count = @ + 1]

\* execute_code L361, kernel_client.execute(code): the client's code runs in
\* the worker's interpreter, whose namespace (user_ns) from then on holds what
\* the code defined
Executes(k) == [k EXCEPT !.user_ns = TRUE]

\* An end of the execution that touches the session and leaves it busy
EpilogueKeepsBusy(k, t) == update_activity(k, t)

\* execute_code L423-424, the finally block
Epilogue(k, t) == update_activity([k EXCEPT !.is_busy = FALSE], t)

\* create_session_with_files L326-328: the session is bound to the id in
\* sessions and returned; execute_code then goes on (L353-362) to mark it busy
\* and submit the code, and waits for the first message.  k1 is ks as the
\* segment leaves it before that.
Deliver(c, k1) ==
    LET call == calls[c] IN
    /\ sessions' = DictPut(sessions, call.id, call.s)
    /\ IF call.op = "execute"
       THEN /\ ks' = [k1 EXCEPT ![call.s] = Executes(BeginExecution(@))]
            /\ calls' = [calls EXCEPT ![c].pc = "loop",
                                      ![c].count0 = k1[call.s].execution_count]
       ELSE /\ ks' = k1
            /\ calls' = [calls EXCEPT ![c].pc = "done", ![c].ret = "ok"]

\* create_session_with_files L291-297: the wait for the chdir reply ends.  ok:
\* status idle arrived; otherwise wait_for raised TimeoutError, which leaves the
\* call (it is outside the try of L321).
ChdirDone(c, ok) ==
    /\ Quiet
    /\ calls[c].pc = "chdir"
    /\ IF ~ok
       THEN /\ calls' = [calls EXCEPT ![c].pc = "done", ![c].ret = "raised"]
            /\ UNCHANGED <<sessions, ks>>
       ELSE IF calls[c].files
            THEN /\ calls' = [calls EXCEPT ![c].pc = "files"]
                 /\ UNCHANGED <<sessions, ks>>
            ELSE Deliver(c, ks)
    /\ Fault(~ok)
    /\ UNCHANGED <<session_pool, pool_lock, nobj, now, refill, cleanup, svc, ops, nids, max_kernels, gatewayVars, storeVars>>
    /\ UNCHANGED loopVars
    /\ UNCHANGED fileVars

\* create_session_with_files L315-323: the downloads are over (their errors are
\* collected, never raised); a session that has no kernel_client is started.
FilesDone(c, got) ==
    /\ Quiet
    /\ calls[c].pc = "files"
    /\ got => disk[Dir(c)].exists
    /\ IF ks[calls[c].s].st = "new"
       THEN /\ calls' = [calls EXCEPT ![c].pc = "start"]
            /\ UNCHANGED <<sessions, ks>>
       ELSE Deliver(c, ks)
    /\ UNCHANGED <<session_pool, pool_lock, nobj, now, refill, cleanup, svc, ops, nids, faults, max_kernels, gatewayVars, storeVars>>
    /\ UNCHANGED loopVars
    /\ disk' = Downloaded(disk, Dir(c), got)
    /\ UNCHANGED acq

\* create_session_with_files L324-331: session.start() returned (ok) or raised,
\* and then the call awaits session.stop() before it re-raises.
StartDone(c, ok) ==
    /\ Quiet
    /\ calls[c].pc = "start"
    /\ IF ok
       THEN Deliver(c, [ks EXCEPT ![calls[c].s] = Started(@)])
       ELSE /\ calls' = [calls EXCEPT ![c].pc = "fail_stop"]
            /\ UNCHANGED <<sessions, ks>>
    /\ Fault(~ok)
    /\ UNCHANGED <<session_pool, pool_lock, nobj, now, refill, cleanup, svc, ops, nids, max_kernels, gatewayVars, storeVars>>
    /\ UNCHANGED loopVars
    /\ UNCHANGED fileVars

\* create_session_with_files L331-332: session.stop() returned; raise.
FailStopDone(c) ==
    /\ Quiet
    /\ calls[c].pc = "fail_stop"
    /\ ks' = [ks EXCEPT ![calls[c].s] = Stopped(@)]
    /\ calls' = [calls EXCEPT ![c].pc = "done", ![c].ret = "raised"]
    /\ UNCHANGED <<sessions, session_pool, pool_lock, nobj, now, refill, cleanup, svc, ops, nids, faults, max_kernels, gatewayVars, storeVars>>
    /\ UNCHANGED loopVars
    /\ disk' = rmtree(disk, ks[calls[c].s])
    /\ UNCHANGED acq

\* create_session_with_files L248-268 for an id in sessions: the session is
\* touched; with files to fetch the call awaits the downloads.
AcquireExisting(c, id, files) ==
    /\ Quiet
    /\ svc.pc = "running"
    /\ Enter(c, id)
    /\ HasKey(sessions, id)
    /\ LET s == Get(sessions, id)
           call == [IdleCall EXCEPT !.op = "acquire", !.id = id, !.files = files, !.s = s]
       IN /\ ks' = [ks EXCEPT ![s] = update_activity(@, now)]
          /\ calls' = [calls EXCEPT ![c] =
                         IF files THEN [call EXCEPT !.pc = "reuse_files"]
                         ELSE [call EXCEPT !.pc = "done", !.ret = "ok"]]
    /\ UNCHANGED <<sessions, session_pool, pool_lock, nobj, now, refill, cleanup, svc, faults, max_kernels, gatewayVars, storeVars>>
    /\ UNCHANGED loopVars
    /\ UNCHANGED fileVars

\* create_session_with_files L262-268: the downloads into the existing session
\* are over; the existing session is returned.
ReuseFilesDone(c, got) ==
    /\ Quiet
    /\ calls[c].pc = "reuse_files"
    /\ got => disk[Dir(c)].exists
    /\ calls' = [calls EXCEPT ![c].pc = "done", ![c].ret = "ok"]
    /\ UNCHANGED <<sessions, session_pool, pool_lock, ks, nobj, now, refill, cleanup, svc, ops, nids, faults, max_kernels, gatewayVars, storeVars>>
    /\ UNCHANGED loopVars
    /\ disk' = Downloaded(disk, Dir(c), got)
    /\ UNCHANGED acq

\* ------------------------------------------------------------- execute_code

\* execute_code L351-362 for an id in sessions: get_or_create_session L336-339
\* touches and returns the session, which is marked busy; the code is submitted
\* and the call waits for the first message.
ExecuteExisting(c, id) ==
    /\ Quiet
    /\ svc.pc = "running"
    /\ Enter(c, id)
    /\ HasKey(sessions, id)
    /\ LET s == Get(sessions, id)
       IN /\ ks[s].execution_count < MaxCount
          /\ ks' = [ks EXCEPT ![s] = Executes(BeginExecution(update_activity(@, now)))]
          /\ calls' = [calls EXCEPT ![c] = [IdleCall EXCEPT !.op = "execute", !.pc = "loop",
                                                !.id = id, !.s = s,
                                                !.count0 = ks[s].execution_count]]
    /\ UNCHANGED <<sessions, session_pool, pool_lock, nobj, now, refill, cleanup, svc, faults, max_kernels, gatewayVars, storeVars>>
    /\ UNCHANGED loopVars
    /\ UNCHANGED fileVars

\* execute_code L364-424 seen from the manager: the loop ends (status idle,
\* timeout, exception or the consumer closing the generator) and the finally
\* block runs.  The loop body itself changes no field of the manager or of the
\* session.  made: the code that ran made a sub-directory with a file in it in
\* its working directory.
ExecuteFinish(c, made) ==
    /\ Quiet
    /\ calls[c].pc = "loop"
    /\ made => Dir(c) \in Ids /\ disk[Dir(c)].exists
    /\ disk' = IF made THEN [disk EXCEPT ![Dir(c)].subdirs = TRUE] ELSE disk
    /\ ks' = [ks EXCEPT ![calls[c].s] = Epilogue(@, now)]
    /\ calls' = [calls EXCEPT ![c].pc = "done", ![c].ret = "ok"]
    /\ UNCHANGED <<sessions, session_pool, pool_lock, nobj, now, refill, cleanup, svc, ops, nids, faults, max_kernels, gatewayVars, storeVars>>
    /\ UNCHANGED loopVars
    /\ UNCHANGED acq

\* ------------------------------------------------------- terminate_session

\* terminate_session L479-485, for an id in sessions: the session is popped and
\* the call goes to return it to the pool.
Terminate(c, id) ==
    /\ Quiet
    /\ svc.pc = "running"
    /\ Enter(c, id)
    /\ HasKey(sessions, id)
    /\ sessions' = DictPop(sessions, id)
    /\ calls' = [calls EXCEPT ![c] = [IdleCall EXCEPT !.op = "terminate", !.pc = "return_pool",
                                          !.id = id, !.rel = Get(sessions, id)]]
    /\ UNCHANGED <<session_pool, pool_lock, ks, nobj, now, refill, cleanup, svc, faults, max_kernels, gatewayVars, storeVars>>
    /\ UNCHANGED loopVars
    /\ UNCHANGED fileVars

\* terminate_session L479-480, for an id not in sessions: returns False.
TerminateUnknown(c, id) ==
    /\ Quiet
    /\ svc.pc = "running"
    /\ Enter(c, id)
    /\ ~HasKey(sessions, id)
    /\ calls' = [calls EXCEPT ![c] = [IdleCall EXCEPT !.op = "terminate", !.pc = "done",
                                          !.id = id, !.ret = "false"]]
    /\ UNCHANGED <<sessions, session_pool, pool_lock, ks, nobj, now, refill, cleanup, svc, faults, max_kernels, gatewayVars, storeVars>>
    /\ UNCHANGED loopVars
    /\ UNCHANGED fileVars

\* ------------------------------------------------------------------ stop()

\* A session on which stop() was called and cancelled while it awaited
\* shutdown_kernel: whether the worker is gone is not known
Cancelled(k) == [k EXCEPT !.st = "cancelled"]

\* stop() L56-60 from the point where sessions has been cleared, with the lock
\* in state lock: a free lock is taken at once, and with an empty pool stop()
\* returns; else it awaits the lock, or the stop() of the first pooled session.
StopPoolPc(lock, pool) ==
    IF lock # Free THEN "stop_lock"
    ELSE IF pool = <<>> THEN "stopped" ELSE "stop_pool"

StopPoolLock(lock, pool) ==
    IF lock = Free /\ pool # <<>> THEN StopTask ELSE lock

\* stop() L40-53 up to its first await of a session's stop(): both tasks are
\* cancelled and awaited (a task takes the CancelledError where it waits:
\* _cleanup_loop L433 and _pool_refill_loop L139 break; a stop() or start() the
\* task was awaiting is abandoned, and the refill's lock released), and the
\* sessions are listed.
StopService ==
    /\ Quiet
    /\ svc.pc = "running"
    /\ Budget
    /\ ops' = ops + 1
    /\ cleanup' = [pc |-> "ended", to_remove |-> <<>>, cur |-> NoObj]
    /\ refill' = [pc |-> "ended", left |-> 0, cur |-> NoObj]
    /\ LET todo == [i \in 1..Len(sessions) |-> sessions[i][2]]
           ks1 == IF cleanup.pc = "stopping" THEN [ks EXCEPT ![cleanup.cur] = Cancelled(@)] ELSE ks
           lock == IF pool_lock = RefillTask THEN Free ELSE pool_lock
       IN /\ svc' = [pc |-> IF todo = <<>> THEN StopPoolPc(lock, session_pool) ELSE "stop_active",
                     left |-> IF todo = <<>> /\ lock = Free THEN Len(session_pool) ELSE 0,
                     cur |-> NoObj, todo |-> todo]
          /\ pool_lock' = IF todo = <<>> THEN StopPoolLock(lock, session_pool) ELSE lock
          /\ ks' = Collect(ks1, Live(sessions, session_pool, calls, 0, refill', cleanup', svc'))
    /\ UNCHANGED <<sessions, session_pool, nobj, now, calls, nids, faults, max_kernels, gatewayVars, storeVars>>
    /\ UNCHANGED loopVars
    /\ UNCHANGED fileVars

\* stop() L52-54: session.stop() returned for the first session listed; after
\* the last one sessions is cleared.
StopActiveDone ==
    /\ Quiet
    /\ svc.pc = "stop_active"
    /\ svc' = [svc EXCEPT !.todo = Tail(@),
                          !.pc = IF Tail(svc.todo) = <<>> THEN StopPoolPc(pool_lock, session_pool)
                                 ELSE "stop_active",
                          !.left = IF Tail(svc.todo) = <<>> /\ pool_lock = Free
                                   THEN Len(session_pool) ELSE 0]
    /\ pool_lock' = IF Tail(svc.todo) = <<>> THEN StopPoolLock(pool_lock, session_pool) ELSE pool_lock
    /\ sessions' = IF Tail(svc.todo) = <<>> THEN <<>> ELSE sessions
    /\ ks' = Collect([ks EXCEPT ![Head(svc.todo)] = Stopped(@)],
                     Live(sessions', session_pool, calls, 0, refill, cleanup, svc'))
    /\ disk' = rmtree(disk, ks[Head(svc.todo)])
    /\ UNCHANGED <<session_pool, nobj, now, calls, refill, cleanup, ops, nids, faults, max_kernels, gatewayVars, storeVars>>
    /\ UNCHANGED loopVars
    /\ UNCHANGED acq

\* stop() L57-60: the lock stop() waited for is free and taken; with an empty
\* pool stop() returns, else it awaits the stop() of the first pooled session.
StopTakesLock ==
    /\ Quiet
    /\ svc.pc = "stop_lock"
    /\ pool_lock = Free
    /\ svc' = [svc EXCEPT !.pc = StopPoolPc(Free, session_pool), !.left = Len(session_pool)]
    /\ pool_lock' = StopPoolLock(Free, session_pool)
    /\ UNCHANGED <<sessions, session_pool, ks, nobj, now, calls, refill, cleanup, ops, nids, faults, max_kernels, gatewayVars, storeVars>>
    /\ UNCHANGED loopVars
    /\ UNCHANGED fileVars

\* stop() L58-60: session.stop() returned for a pooled session; after the last
\* one the pool is cleared, the lock released, and stop() returns.
StopPoolDone ==
    /\ Quiet
    /\ svc.pc = "stop_pool"
    /\ LET s == session_pool[Len(session_pool) - svc.left + 1]
       IN /\ disk' = rmtree(disk, ks[s])
          /\ IF svc.left > 1
             THEN /\ svc' = [svc EXCEPT !.left = @ - 1]
                  /\ ks' = [ks EXCEPT ![s] = Stopped(@)]
                  /\ UNCHANGED <<session_pool, pool_lock>>
             ELSE /\ svc' = [svc EXCEPT !.pc = "stopped", !.left = 0]
                  /\ session_pool' = <<>>
                  /\ pool_lock' = Free
                  /\ ks' = Collect([ks EXCEPT ![s] = Stopped(@)],
                                   Live(sessions, <<>>, calls, 0, refill, cleanup, svc'))
    /\ UNCHANGED <<sessions, nobj, now, calls, refill, cleanup, ops, nids, faults, max_kernels, gatewayVars, storeVars>>
    /\ UNCHANGED loopVars
    /\ UNCHANGED acq

\* The caller has its result (or its exception); the slot is free again.
Return(c) ==
    /\ calls[c].pc = "done"
    /\ calls' = [calls EXCEPT ![c] = IdleCall]
    /\ ks' = Collect(ks, Live(sessions, session_pool, calls, c, refill, cleanup, svc))
    /\ exec' = [exec EXCEPT ![c] = NoExec]
    /\ acq' = [acq EXCEPT ![c] = NoAcq]
    /\ UNCHANGED <<sessions, session_pool, pool_lock, nobj, now, refill, cleanup, svc, ops, nids, faults, max_kernels, gatewayVars, storeVars>>
    /\ UNCHANGED <<iopub, worker, emitted, disk>>

Next ==
    \/ Tick
    \/ StartService
    \/ \E ok \in BOOLEAN : PrimeStep(ok)
    \/ RefillTick
    \/ RefillCreated
    \/ RefillFailed
    \/ CleanupTick
    \/ CleanupStopped
    \/ \E c \in Calls, cleaned \in BOOLEAN : ReturnToPool(c, cleaned)
    \/ \E c \in Calls : StopLockedDone(c)
    \/ \E c \in Calls : StopAgainDone(c)
    \/ \E c \in Calls, id \in Ids : Terminate(c, id)
    \/ \E c \in Calls, id \in Ids : TerminateUnknown(c, id)
    \/ \E c \in Calls, id \in Ids : CreateEnter(c, "execute", id, FALSE)
    \/ \E c \in Calls, id \in Ids, files \in BOOLEAN : CreateEnter(c, "acquire", id, files)
    \/ \E c \in Calls : GetFromPool(c)
    \/ \E c \in Calls, ok \in BOOLEAN : ChdirDone(c, ok)
    \/ \E c \in Calls, got \in BOOLEAN : FilesDone(c, got)
    \/ \E c \in Calls, ok \in BOOLEAN : StartDone(c, ok)
    \/ \E c \in Calls : FailStopDone(c)
    \/ \E c \in Calls, id \in Ids, files \in BOOLEAN : AcquireExisting(c, id, files)
    \/ \E c \in Calls, got \in BOOLEAN : ReuseFilesDone(c, got)
    \/ \E c \in Calls, id \in Ids : ExecuteExisting(c, id)
    \/ \E c \in Calls, made \in BOOLEAN : ExecuteFinish(c, made)
    \/ StopService
    \/ StopActiveDone
    \/ StopTakesLock
    \/ StopPoolDone
    \/ \E c \in Calls : Return(c)

Spec == Init /\ [][Next]_vars

\* ----------------------------------------------- the Execution Loop in detail
\* One active session (id 1, object 1) and its worker, followed message by
\* message; the manager's pool and tasks stay as they are.

mgrVars == <<sessions, session_pool, pool_lock, nobj, refill, cleanup, svc, nids, max_kernels>>

\* The positions of an execute_code call inside its loop
LoopPcs == {"loop", "yielded", "interrupting", "yield_timeout", "yield_error"}

\* execute_code L358: timeout or settings.max_execution_time
execution_timeout(timeout) ==
    IF timeout = None \/ timeout = 0 THEN max_execution_time ELSE timeout

\* The events the loop makes up itself: L393-398 and L405-410, L416-421
TimeoutEvent == [parent |-> 0, kind |-> "timeout"]
ErrorEvent == [parent |-> 0, kind |-> "exception"]

\* Failures of the worker's channels and signals
LoopFault(failed) ==
    IF failed THEN faults < MaxFaults /\ faults' = faults + 1
    ELSE faults' = faults

\* Python's 1.0 s timer of wait_for has run out for call c
PollExpired(c) == calls[c].pc = "loop" /\ now - exec[c].wait_from >= 1

\* execute_code L423-424 ends call c, whose generator is then exhausted or closed
Finally(c, ret) ==
    /\ ks' = [ks EXCEPT ![calls[c].s] = Epilogue(@, now)]
    /\ calls' = [calls EXCEPT ![c].pc = "done", ![c].ret = ret]

InitLoop ==
    /\ sessions = <<<<1, 1>>>>
    /\ session_pool = <<>>
    /\ pool_lock = Free
    /\ ks = [o \in Obj |-> IF o = 1 THEN Started(Bound(NewSession(0), 1)) ELSE Blank]
    /\ nobj = 1
    /\ now = 0
    /\ calls = [c \in Calls |-> IdleCall]
    /\ refill = [pc |-> "sleep", left |-> 0, cur |-> NoObj]
    /\ cleanup = [pc |-> "sleep", to_remove |-> <<>>, cur |-> NoObj]
    /\ svc = [pc |-> "running", left |-> 0, cur |-> NoObj, todo |-> <<>>]
    /\ ops = 0
    /\ nids = 1
    /\ faults = 0
    /\ max_kernels = 1
    /\ iopub = <<>>
    /\ worker = [cur |-> 0, left |-> 0, queue |-> <<>>]
    /\ exec = [c \in Calls |-> NoExec]
    /\ emitted = [m \in 1..MaxExecs |-> <<>>]
    /\ disk = [d \in Ids |-> IF d = 1 THEN CleanDir ELSE NoDir]
    /\ acq = [c \in Calls |-> NoAcq]
    /\ GatewayUnused
    /\ StoreUnused

\* time.time() advances by a second; a timer that has run out fires first, and a
\* call waiting in get_iopub_msg reads a message that is there.  An
\* execution still in its loop, with no status idle read, when the clock passes
\* start_time + timeout has passed its deadline.
LoopTick ==
    /\ Quiet
    /\ now < MaxLoopTime
    /\ \A c \in Calls : ~PollExpired(c)
    /\ \A c \in Calls : calls[c].pc = "loop" => iopub = <<>>
    /\ now' = now + 1
    /\ exec' = [c \in Calls |->
                  LET e == exec[c]
                      limit == IF e.timeout = None THEN max_execution_time ELSE e.timeout
                  IN IF /\ calls[c].pc \in LoopPcs
                        /\ e.msg_id # 0
                        /\ \A i \in 1..Len(e.out) : e.out[i].kind # "idle"
                        /\ now + 1 > e.start_time + limit
                     THEN [e EXCEPT !.overdue = TRUE]
                     ELSE e]
    /\ UNCHANGED <<ks, calls, ops, faults, iopub, worker, emitted>>
    /\ UNCHANGED <<mgrVars, gatewayVars, storeVars>>
    /\ UNCHANGED fileVars

\* execute_code L351-363 on the active session: it is touched
\* (get_or_create_session L337-338) and marked busy, the code is submitted
\* (msg_id is the number of the submission) and the first wait begins.
Submit(c, id, timeout) ==
    /\ Quiet
    /\ calls[c].pc = "idle"
    /\ \A d \in 1..(c - 1) : calls[d].pc # "idle"
    /\ ops < MaxExecs
    /\ HasKey(sessions, id)
    /\ LET s == Get(sessions, id)
       IN /\ ks' = [ks EXCEPT ![s] = Executes(BeginExecution(update_activity(@, now)))]
          /\ calls' = [calls EXCEPT ![c] = [IdleCall EXCEPT !.op = "execute", !.pc = "loop",
                                                !.id = id, !.s = s,
                                                !.count0 = ks[s].execution_count]]
    /\ ops' = ops + 1
    /\ exec' = [exec EXCEPT ![c] = [NoExec EXCEPT !.timeout = timeout,
                                         !.execution_timeout = execution_timeout(timeout),
                                         !.start_time = now, !.wait_from = now,
                                         !.msg_id = ops + 1]]
    /\ worker' = IF worker.cur = 0
                 THEN [worker EXCEPT !.cur = ops + 1, !.left = MaxOut]
                 ELSE [worker EXCEPT !.queue = Append(@, ops + 1)]
    /\ UNCHANGED <<now, faults, iopub, emitted>>
    /\ UNCHANGED <<mgrVars, gatewayVars, storeVars>>
    /\ UNCHANGED fileVars

\* execute_code L356-361, L414-421: kernel_client.execute raises; the handler
\* yields an error event.
SubmitFails(c, id, timeout) ==
    /\ Quiet
    /\ calls[c].pc = "idle"
    /\ \A d \in 1..(c - 1) : calls[d].pc # "idle"
    /\ ops < MaxExecs
    /\ HasKey(sessions, id)
    /\ LET s == Get(sessions, id)
       IN /\ ks' = [ks EXCEPT ![s] = BeginExecution(update_activity(@, now))]
          /\ calls' = [calls EXCEPT ![c] = [IdleCall EXCEPT !.op = "execute",
                                                !.pc = "yield_error", !.id = id, !.s = s,
                                                !.count0 = ks[s].execution_count]]
    /\ ops' = ops + 1
    /\ exec' = [exec EXCEPT ![c] = [NoExec EXCEPT !.timeout = timeout,
                                         !.execution_timeout = execution_timeout(timeout),
                                         !.out = <<ErrorEvent>>]]
    /\ LoopFault(TRUE)
    /\ UNCHANGED <<now, iopub, worker, emitted>>
    /\ UNCHANGED <<mgrVars, gatewayVars, storeVars>>
    /\ UNCHANGED fileVars

\* The worker emits a message for the submission it runs.  "other" is a message
\* type MessageType (src/src/schema/models.py) does not list.
WorkerEmit(kind) ==
    /\ Quiet
    /\ worker.cur # 0
    /\ worker.left > 0
    /\ iopub' = Append(iopub, [parent |-> worker.cur, kind |-> kind])
    /\ emitted' = [emitted EXCEPT ![worker.cur] = Append(@, [parent |-> worker.cur, kind |-> kind])]
    /\ worker' = [worker EXCEPT !.left = @ - 1]
    /\ UNCHANGED <<ks, now, calls, ops, faults, exec>>
    /\ UNCHANGED <<mgrVars, gatewayVars, storeVars>>
    /\ UNCHANGED fileVars

\* The worker is through with the submission it runs (to its end, or
\* interrupted): it emits status idle and takes the next submission.
WorkerFinish ==
    /\ Quiet
    /\ worker.cur # 0
    /\ iopub' = Append(iopub, [parent |-> worker.cur, kind |-> "idle"])
    /\ emitted' = [emitted EXCEPT ![worker.cur] = Append(@, [parent |-> worker.cur, kind |-> "idle"])]
    /\ worker' = IF worker.queue = <<>>
                 THEN [cur |-> 0, left |-> 0, queue |-> <<>>]
                 ELSE [cur |-> Head(worker.queue), left |-> MaxOut, queue |-> Tail(worker.queue)]
    /\ UNCHANGED <<ks, now, calls, ops, faults, exec>>
    /\ UNCHANGED <<mgrVars, gatewayVars, storeVars>>
    /\ UNCHANGED fileVars

\* execute_code L367-384: get_iopub_msg returns the next message of the channel,
\* which is wrapped and yielded; MessageType(msg_type) raises ValueError for a
\* type it does not list, and the handler of L414 yields an error event.
Recv(c) ==
    /\ Quiet
    /\ calls[c].pc = "loop"
    /\ iopub # <<>>
    /\ iopub' = Tail(iopub)
    /\ IF Head(iopub).kind = "other"
       THEN /\ exec' = [exec EXCEPT ![c].out = Append(@, ErrorEvent)]
            /\ calls' = [calls EXCEPT ![c].pc = "yield_error"]
       ELSE /\ exec' = [exec EXCEPT ![c].out = Append(@, Head(iopub))]
            /\ calls' = [calls EXCEPT ![c].pc = "yielded"]
    /\ UNCHANGED <<ks, now, ops, faults, worker, emitted>>
    /\ UNCHANGED <<mgrVars, gatewayVars, storeVars>>
    /\ UNCHANGED fileVars

\* execute_code L367-370, L414-421: get_iopub_msg raises; the handler yields an
\* error event.
ReadFails(c) ==
    /\ Quiet
    /\ calls[c].pc = "loop"
    /\ exec' = [exec EXCEPT ![c].out = Append(@, ErrorEvent), ![c].read_failed = TRUE]
    /\ calls' = [calls EXCEPT ![c].pc = "yield_error"]
    /\ LoopFault(TRUE)
    /\ UNCHANGED <<ks, now, ops, iopub, worker, emitted>>
    /\ UNCHANGED <<mgrVars, gatewayVars, storeVars>>
    /\ UNCHANGED fileVars

\* execute_code L384-401: the consumer asks for the next event after a worker
\* message.  Status idle ends the loop; otherwise past execution_timeout the
\* call awaits interrupt_kernel(); otherwise it waits for the next message.
AfterYield(c) ==
    /\ Quiet
    /\ calls[c].pc = "yielded"
    /\ LET e == exec[c]
       IN IF e.out[Len(e.out)].kind = "idle"
          THEN /\ Finally(c, "ok")
               /\ UNCHANGED exec
          ELSE /\ IF now - e.start_time > e.execution_timeout
                  THEN /\ calls' = [calls EXCEPT ![c].pc = "interrupting"]
                       /\ UNCHANGED exec
                  ELSE /\ calls' = [calls EXCEPT ![c].pc = "loop"]
                       /\ exec' = [exec EXCEPT ![c].wait_from = now]
               /\ UNCHANGED ks
    /\ UNCHANGED <<now, ops, faults, iopub, worker, emitted>>
    /\ UNCHANGED <<mgrVars, gatewayVars, storeVars>>
    /\ UNCHANGED fileVars

\* execute_code L401-412: wait_for raised TimeoutError after 1.0 s.  Past
\* execution_timeout the call awaits interrupt_kernel(); otherwise it waits on.
PollTimeout(c) ==
    /\ Quiet
    /\ PollExpired(c)
    /\ IF now - exec[c].start_time > exec[c].execution_timeout
       THEN /\ calls' = [calls EXCEPT ![c].pc = "interrupting"]
            /\ exec' = [exec EXCEPT ![c].polled = TRUE]
       ELSE /\ exec' = [exec EXCEPT ![c].polled = TRUE, ![c].wait_from = now]
            /\ UNCHANGED calls
    /\ UNCHANGED <<ks, now, ops, faults, iopub, worker, emitted>>
    /\ UNCHANGED <<mgrVars, gatewayVars, storeVars>>
    /\ UNCHANGED fileVars

\* execute_code L392-398, L404-410: interrupt_kernel() returned and the timeout
\* event is yielded; or it raised, and the handler of L414 yields an error event.
InterruptDone(c, ok) ==
    /\ Quiet
    /\ calls[c].pc = "interrupting"
    /\ IF ok
       THEN /\ exec' = [exec EXCEPT ![c].interrupts = @ + 1, ![c].out = Append(@, TimeoutEvent)]
            /\ calls' = [calls EXCEPT ![c].pc = "yield_timeout"]
       ELSE /\ exec' = [exec EXCEPT ![c].out = Append(@, ErrorEvent)]
            /\ calls' = [calls EXCEPT ![c].pc = "yield_error"]
    /\ LoopFault(~ok)
    /\ UNCHANGED <<ks, now, ops, iopub, worker, emitted>>
    /\ UNCHANGED <<mgrVars, gatewayVars, storeVars>>
    /\ UNCHANGED fileVars

\* execute_code L399 and L411, L421-424: the consumer asks for the next event
\* after the timeout event or the handler's error event; the generator ends.
AfterLastYield(c) ==
    /\ Quiet
    /\ calls[c].pc \in {"yield_timeout", "yield_error"}
    /\ Finally(c, "ok")
    /\ UNCHANGED <<now, ops, faults, iopub, worker, exec, emitted>>
    /\ UNCHANGED <<mgrVars, gatewayVars, storeVars>>
    /\ UNCHANGED fileVars

\* The consumer closes the generator or its task is cancelled: GeneratorExit or
\* CancelledError is raised where the call is suspended, which no handler of
\* the loop catches; L423-424 run.
Close(c) ==
    /\ Quiet
    /\ calls[c].pc \in LoopPcs
    /\ Finally(c, "closed")
    /\ UNCHANGED <<now, ops, faults, iopub, worker, exec, emitted>>
    /\ UNCHANGED <<mgrVars, gatewayVars, storeVars>>
    /\ UNCHANGED fileVars

Timeouts == {None, 0, 1}

NextLoop ==
    \/ LoopTick
    \/ \E c \in Calls, timeout \in Timeouts : Submit(c, 1, timeout)
    \/ \E c \in Calls, timeout \in Timeouts : SubmitFails(c, 1, timeout)
    \/ \E kind \in {"stream", "other"} : WorkerEmit(kind)
    \/ WorkerFinish
    \/ \E c \in Calls : Recv(c)
    \/ \E c \in Calls : ReadFails(c)
    \/ \E c \in Calls : AfterYield(c)
    \/ \E c \in Calls : PollTimeout(c)
    \/ \E c \in Calls, ok \in BOOLEAN : InterruptDone(c, ok)
    \/ \E c \in Calls : AfterLastYield(c)
    \/ \E c \in Calls : Close(c)
    \/ \E c \in Calls : Return(c)

SpecLoop == InitLoop /\ [][NextLoop]_vars

\* ------------------------------------------------ idle cleanup among clients
\* The service with two sessions, bound to ids 1 and 2, that have been idle
\* for longer than kernel_timeout, and an empty pool.

InitIdle ==
    /\ sessions = <<<<1, 1>>, <<2, 2>>>>
    /\ session_pool = <<>>
    /\ pool_lock = Free
    /\ ks = [o \in Obj |-> IF o \in {1, 2} THEN Started(Bound(NewSession(0), o)) ELSE Blank]
    /\ nobj = 2
    /\ now = kernel_timeout + 1
    /\ calls = [c \in Calls |-> IdleCall]
    /\ refill = [pc |-> "sleep", left |-> 0, cur |-> NoObj]
    /\ cleanup = [pc |-> "sleep", to_remove |-> <<>>, cur |-> NoObj]
    /\ svc = [pc |-> "running", left |-> 0, cur |-> NoObj, todo |-> <<>>]
    /\ ops = 0
    /\ nids = 2
    /\ faults = 0
    /\ max_kernels = MaxKernels
    /\ iopub = <<>>
    /\ worker = [cur |-> 0, left |-> 0, queue |-> <<>>]
    /\ exec = [c \in Calls |-> NoExec]
    /\ emitted = [m \in 1..MaxExecs |-> <<>>]
    /\ disk = [d \in Ids |-> IF d \in {1, 2} THEN CleanDir ELSE NoDir]
    /\ acq = [c \in Calls |-> NoAcq]
    /\ GatewayUnused
    /\ StoreUnused

NextIdle ==
    \/ RefillTick
    \/ RefillCreated
    \/ RefillFailed
    \/ CleanupTick
    \/ CleanupStopped
    \/ \E step \in StopSteps : CleanupStopFails(step)
    \/ \E c \in Calls, cleaned \in BOOLEAN : ReturnToPool(c, cleaned)
    \/ \E c \in Calls : StopLockedDone(c)
    \/ \E c \in Calls : StopAgainDone(c)
    \/ \E c \in Calls, id \in Ids : Terminate(c, id)
    \/ \E c \in Calls, id \in Ids : TerminateUnknown(c, id)
    \/ \E c \in Calls, id \in Ids : CreateEnter(c, "execute", id, FALSE)
    \/ \E c \in Calls, id \in Ids, files \in BOOLEAN : CreateEnter(c, "acquire", id, files)
    \/ \E c \in Calls : GetFromPool(c)
    \/ \E c \in Calls, ok \in BOOLEAN : ChdirDone(c, ok)
    \/ \E c \in Calls, got \in BOOLEAN : FilesDone(c, got)
    \/ \E c \in Calls, ok \in BOOLEAN : StartDone(c, ok)
    \/ \E c \in Calls : FailStopDone(c)
    \/ \E c \in Calls, id \in Ids, files \in BOOLEAN : AcquireExisting(c, id, files)
    \/ \E c \in Calls, got \in BOOLEAN : ReuseFilesDone(c, got)
    \/ \E c \in Calls, id \in Ids : ExecuteExisting(c, id)
    \/ \E c \in Calls, made \in BOOLEAN : ExecuteFinish(c, made)
    \/ \E c \in Calls : Return(c)

SpecIdle == InitIdle /\ [][NextIdle]_vars

\* ------------------------------------------- the files of a session directory
\* create_session_with_files with file items, on the directory of session id 1,
\* and the manifest (SessionFileConfig) persisted in it.

\* SessionFileConfig._load_config L27-38: the manifest persisted in directory d
_load_config(d) == IF d.exists THEN d.manifest ELSE NoConfig

\* SessionFileConfig._save_config L40-48: the directory is made and the manifest
\* written from the copy in memory
_save_config(d, cfg) == [d EXCEPT !.exists = TRUE, !.manifest = cfg]

\* SessionFileConfig.has_file, get_filename, add_file L50-81 (on the copy in memory)
has_file(cfg, f) == cfg[f] # NoName

get_filename(cfg, f) == cfg[f]

add_file(cfg, f, n) == [cfg EXCEPT ![f] = n]

\* SessionFileConfig.remove_file L83-92 (on the copy in memory)
remove_file(cfg, f) == [cfg EXCEPT ![f] = NoName]

\* `if filename not in downloaded_files: downloaded_files.append(filename)`
AppendNew(seq, n) ==
    IF \E i \in 1..Len(seq) : seq[i] = n THEN seq ELSE Append(seq, n)

\* The entries of cfg whose file is in `files`
ValidEntries(cfg, files) ==
    [f \in FileIds |-> IF cfg[f] \in files THEN cfg[f] ELSE NoName]

RECURSIVE ExistingFrom(_, _)
\* _process_existing_files L164-176: the filenames of the entries from id f on
\* (every entry of cfg is valid), one per entry
ExistingFrom(cfg, f) ==
    IF f > MaxFileIds THEN <<>>
    ELSE (IF has_file(cfg, f) THEN <<get_filename(cfg, f)>> ELSE <<>>) \o ExistingFrom(cfg, f + 1)

\* The lists of file items a request supplies (their ids)
RECURSIVE ItemLists(_)
ItemLists(n) ==
    IF n = 0 THEN {<<>>}
    ELSE ItemLists(n - 1) \cup {Append(l, f) : l \in {m \in ItemLists(n - 1) : Len(m) = n - 1}, f \in FileIds}

\* The states a directory can be in: none, or files and a manifest left by the
\* calls and the code that ran in it (or by an earlier process)
DirStates ==
    {NoDir} \cup {[exists |-> TRUE, files |-> fs, manifest |-> m, subdirs |-> FALSE] :
                     fs \in SUBSET Names, m \in [FileIds -> Names \cup {NoName}]}

InitFiles ==
    /\ \E active \in BOOLEAN :
          /\ sessions = IF active THEN <<<<1, 1>>>> ELSE <<>>
          /\ ks = [o \in Obj |-> IF active /\ o = 1 THEN Started(Bound(NewSession(0), 1)) ELSE Blank]
          /\ nobj = IF active THEN 1 ELSE 0
          /\ \E d1 \in DirStates :
                /\ active => d1.exists
                /\ disk = [d \in Ids |-> IF d = 1 THEN d1 ELSE NoDir]
    /\ session_pool = <<>>
    /\ pool_lock = Free
    /\ now = 0
    /\ calls = [c \in Calls |-> IdleCall]
    /\ refill = [pc |-> "sleep", left |-> 0, cur |-> NoObj]
    /\ cleanup = [pc |-> "sleep", to_remove |-> <<>>, cur |-> NoObj]
    /\ svc = [pc |-> "running", left |-> 0, cur |-> NoObj, todo |-> <<>>]
    /\ ops = 0
    /\ nids = 1
    /\ faults = 0
    /\ max_kernels = MaxKernels
    /\ iopub = <<>>
    /\ worker = [cur |-> 0, left |-> 0, queue |-> <<>>]
    /\ exec = [c \in Calls |-> NoExec]
    /\ emitted = [m \in 1..MaxExecs |-> <<>>]
    /\ acq = [c \in Calls |-> NoAcq]
    /\ GatewayUnused
    /\ StoreUnused

\* create_session_with_files L244-246, L271-311 for id 1 not in sessions, below
\* capacity and with an empty pool: a KernelSession is constructed, its
\* directory made, and the manifest found there loaded; no file is listed yet.
AcquireNewWithFiles(c, items) ==
    /\ Quiet
    /\ svc.pc = "running"
    /\ Enter(c, 1)
    /\ ops + faults < MaxFileEvents
    /\ ~HasKey(sessions, 1)
    /\ Len(sessions) < max_kernels
    /\ session_pool = <<>> /\ pool_lock = Free
    /\ nobj < MaxObj
    /\ nobj' = nobj + 1
    /\ ks' = [ks EXCEPT ![nobj + 1] = Bound(NewSession(now), 1)]
    /\ calls' = [calls EXCEPT ![c] = [IdleCall EXCEPT !.op = "acquire", !.id = 1, !.files = TRUE,
                                                      !.s = nobj + 1, !.pc = "items"]]
    /\ disk' = [disk EXCEPT ![1].exists = TRUE]
    /\ acq' = [acq EXCEPT ![c] = [NoAcq EXCEPT !.config = _load_config(disk'[1]), !.todo = items]]
    /\ UNCHANGED <<sessions, session_pool, pool_lock, now, refill, cleanup, svc, faults, max_kernels, gatewayVars, storeVars>>
    /\ UNCHANGED loopVars

\* create_session_with_files L248-259 for id 1 in sessions: the session is
\* touched, the manifest loaded, and _process_existing_files L162-176 drops the
\* entries whose file is missing and lists the others.
AcquireExistingWithFiles(c, items) ==
    /\ Quiet
    /\ svc.pc = "running"
    /\ Enter(c, 1)
    /\ ops + faults < MaxFileEvents
    /\ HasKey(sessions, 1)
    /\ LET s == Get(sessions, 1)
           d == cwd(ks[s])
           loaded == _load_config(disk[d])
           cfg == ValidEntries(loaded, disk[d].files)
       IN /\ ks' = [ks EXCEPT ![s] = update_activity(@, now)]
          /\ calls' = [calls EXCEPT ![c] = [IdleCall EXCEPT !.op = "acquire", !.id = 1, !.files = TRUE,
                                                            !.s = s, !.pc = "items"]]
          /\ disk' = [disk EXCEPT ![d] = IF cfg = loaded THEN @ ELSE _save_config(@, cfg)]
          /\ acq' = [acq EXCEPT ![c] = [NoAcq EXCEPT !.config = cfg, !.todo = items,
                                                     !.downloaded_files = ExistingFrom(cfg, 1)]]
    /\ UNCHANGED <<sessions, session_pool, pool_lock, nobj, now, refill, cleanup, svc, faults, max_kernels, gatewayVars, storeVars>>
    /\ UNCHANGED loopVars

\* _process_files_with_id L194-213, one file item: an id the manifest has and
\* whose file exists is listed and skipped; an id the manifest has and whose
\* file is missing is removed from the manifest; what is not skipped is fetched.
ProcessItem(c) ==
    /\ Quiet
    /\ calls[c].pc = "items"
    /\ acq[c].todo # <<>>
    /\ LET f == Head(acq[c].todo)
           cfg == acq[c].config
           d == Dir(c)
       IN IF has_file(cfg, f) /\ get_filename(cfg, f) \in disk[d].files
          THEN /\ acq' = [acq EXCEPT ![c].downloaded_files = AppendNew(@, get_filename(cfg, f)),
                                     ![c].todo = Tail(@)]
               /\ UNCHANGED <<calls, disk>>
          ELSE /\ acq' = [acq EXCEPT ![c].config = IF has_file(cfg, f) THEN remove_file(cfg, f) ELSE cfg,
                                     ![c].purged = @ \/ has_file(cfg, f)]
               /\ disk' = [disk EXCEPT ![d] = IF has_file(cfg, f) THEN _save_config(@, acq'[c].config) ELSE @]
               /\ calls' = [calls EXCEPT ![c].pc = "download"]
    /\ UNCHANGED <<sessions, session_pool, pool_lock, ks, nobj, now, refill, cleanup, svc, ops, nids, faults, max_kernels, gatewayVars, storeVars>>
    /\ UNCHANGED loopVars

\* download_file (file_utils.py L43-91) returned and _process_files_with_id
\* L215-222 goes on.  ok: the file is written under name n, listed, and added to
\* the manifest.  Otherwise an error is collected.
DownloadDone(c, ok, n) ==
    /\ Quiet
    /\ calls[c].pc = "download"
    /\ LET f == Head(acq[c].todo)
           d == Dir(c)
       IN IF ok
          THEN /\ n \in Names
               /\ disk[d].exists
               /\ acq' = [acq EXCEPT ![c].downloaded_files = AppendNew(@, n),
                                     ![c].config = add_file(@, f, n),
                                     ![c].todo = Tail(@)]
               /\ disk' = [disk EXCEPT ![d] = _save_config([@ EXCEPT !.files = @ \cup {n}], acq'[c].config)]
          ELSE /\ n = NoName
               /\ acq' = [acq EXCEPT ![c].errors = @ + 1, ![c].todo = Tail(@)]
               /\ UNCHANGED disk
    /\ calls' = [calls EXCEPT ![c].pc = "items"]
    /\ UNCHANGED <<sessions, session_pool, pool_lock, ks, nobj, now, refill, cleanup, svc, ops, nids, faults, max_kernels, gatewayVars, storeVars>>
    /\ UNCHANGED loopVars

\* _process_files_with_id L224: every item is processed, the errors returned
ItemsDone(c) ==
    /\ Quiet
    /\ calls[c].pc = "items"
    /\ acq[c].todo = <<>>
    /\ calls' = [calls EXCEPT ![c].pc = IF ks[calls[c].s].st = "new" THEN "files" ELSE "reuse_files"]
    /\ UNCHANGED <<sessions, session_pool, pool_lock, ks, nobj, now, refill, cleanup, svc, ops, nids, faults, max_kernels, gatewayVars, storeVars>>
    /\ UNCHANGED loopVars
    /\ UNCHANGED fileVars

\* The code a client runs in a session, or anything else on the machine,
\* removes file n from directory d
FileRemoved(d, n) ==
    /\ Quiet
    /\ n \in disk[d].files
    /\ ops + faults < MaxFileEvents
    /\ Fault(TRUE)
    /\ disk' = [disk EXCEPT ![d].files = @ \ {n}]
    /\ UNCHANGED <<sessions, session_pool, pool_lock, ks, nobj, now, calls, refill, cleanup, svc, ops, nids, max_kernels, gatewayVars, storeVars>>
    /\ UNCHANGED loopVars
    /\ UNCHANGED acq

NextFiles ==
    \/ \E c \in Calls, items \in ItemLists(MaxItems) : AcquireNewWithFiles(c, items)
    \/ \E c \in Calls, items \in ItemLists(MaxItems) : AcquireExistingWithFiles(c, items)
    \/ \E c \in Calls : ProcessItem(c)
    \/ \E c \in Calls, ok \in BOOLEAN, n \in Names \cup {NoName} : DownloadDone(c, ok, n)
    \/ \E c \in Calls : ItemsDone(c)
    \/ \E c \in Calls : FilesDone(c, FALSE)
    \/ \E c \in Calls, ok \in BOOLEAN : StartDone(c, ok)
    \/ \E c \in Calls : FailStopDone(c)
    \/ \E c \in Calls : ReuseFilesDone(c, FALSE)
    \/ \E d \in Ids, n \in Names : FileRemoved(d, n)
    \/ \E c \in Calls : Return(c)

SpecFiles == InitFiles /\ [][NextFiles]_vars

\* ==========================================================================
\* The gateway (sandbox_mcp): the streaming and the synchronous execution of
\* one piece of code, against the same kernel behaviour
\* ==========================================================================

\* What get_iopub_msg gives at one turn of the loop: a message of the kernel
\* (msg_type and the keys of its content the gateway looks at), "other" (a
\* msg_type that is not a member of MessageType, such as clear_output),
\* "quiet" (nothing for a second: asyncio.TimeoutError) or "raise" (it raises).
\* late: time.time() - start_time > execution_timeout when the turn checks it.
\* error: the value under the key 'error', which only the loop's own messages
\* carry.
Msg(t, png, plain, tb, idle, late) ==
    [msg_type |-> t, png |-> png, plain |-> plain, tb |-> tb, evalue |-> (t = "error"),
     idle |-> idle, late |-> late, error |-> "none"]

KernelTurns ==
    {Msg("stream", FALSE, FALSE, FALSE, FALSE, l) : l \in BOOLEAN}
    \cup {Msg(t, g, x, FALSE, FALSE, l) :
            t \in {"display_data", "execute_result"}, g \in BOOLEAN, x \in BOOLEAN, l \in BOOLEAN}
    \cup {Msg("error", FALSE, FALSE, b, FALSE, l) : b \in BOOLEAN, l \in BOOLEAN}
    \cup {Msg("status", FALSE, FALSE, FALSE, i, l) : i \in BOOLEAN, l \in BOOLEAN}
    \cup {Msg(t, FALSE, FALSE, FALSE, FALSE, l) :
            t \in {"execute_input", "other", "quiet", "raise"}, l \in BOOLEAN}

\* a kernel that stays silent until the execution is overdue
Silence == Msg("quiet", FALSE, FALSE, FALSE, FALSE, TRUE)

\* the message execute_code yields when the execution is overdue (L181-186,
\* L193-198), and the one it yields for an exception (L204-209)
TimeoutMessage ==
    [Msg("error", FALSE, FALSE, FALSE, FALSE, FALSE) EXCEPT !.evalue = FALSE, !.error = "Execution timeout"]
ExceptionMessage ==
    [Msg("error", FALSE, FALSE, FALSE, FALSE, FALSE) EXCEPT !.evalue = FALSE, !.error = "str(e)"]

\* An OutputEvent: TextOutput, ImageOutput or ErrorOutput. value names the text
\* it carries; n is the turn whose message it was made from (0: a message the
\* loop made itself).
NoEvent == [kind |-> "none", value |-> "none", traceback |-> "none", n |-> 0]
TextOutput(v, n) == [kind |-> "text", value |-> v, traceback |-> "none", n |-> n]
ImageOutput(v, n) == [kind |-> "image", value |-> v, traceback |-> "none", n |-> n]
ErrorOutput(v, tb, n) == [kind |-> "error", value |-> v, traceback |-> tb, n |-> n]

\* api._process_message
_process_message(m, n) ==
    CASE m.msg_type = "stream" -> TextOutput("text", n)
      [] m.msg_type = "display_data" ->
            IF m.png THEN ImageOutput("image/png", n)
            ELSE IF m.plain THEN TextOutput("text/plain", n)
            ELSE NoEvent
      [] m.msg_type = "execute_result" ->
            IF m.plain THEN TextOutput("text/plain", n)
            ELSE IF m.png THEN ImageOutput("image/png", n)
            ELSE NoEvent
      [] m.msg_type = "error" ->
            ErrorOutput(IF m.tb THEN "join(traceback)"
                        ELSE IF m.evalue THEN "evalue" ELSE "Unknown error",
                        IF m.tb THEN "lines" ELSE "empty", n)
      [] OTHER -> NoEvent

\* `if output_data:` then yield it, or append it to outputs
Put(out, e) == IF e = NoEvent THEN out ELSE Append(out, e)

\* the turn an execution is at: a kernel that has published all of
\* kernel_msgs stays silent
Turn(r) == IF r.pos <= Len(kernel_msgs) THEN kernel_msgs[r.pos] ELSE Silence

\* session.is_busy = True; session.execution_count += 1
GwBegin(k) == [k EXCEPT !.is_busy = TRUE, !.execution_count = @ + 1]
\* finally: session.is_busy = False; session.update_activity()
GwEpilogue(k) == [k EXCEPT !.is_busy = FALSE, !.touched = TRUE]

\* execute_code_sync L129-149: the response built from the collected outputs
Values_of(out, kind) ==
    LET sel == SelectSeq(out, LAMBDA e : e.kind = kind)
    IN  [i \in 1..Len(sel) |-> <<sel[i].value, sel[i].traceback>>]
ExecuteSyncResponse(out) ==
    [status |-> "returned", texts |-> Values_of(out, "text"),
     images |-> Values_of(out, "image"), errors |-> Values_of(out, "error")]

\* All kernel behaviours of at most n turns
RECURSIVE Scripts(_)
Scripts(n) ==
    IF n = 0 THEN {<<>>}
    ELSE LET shorter == Scripts(n - 1)
         IN  shorter \cup {Append(q, m) : q \in {x \in shorter : Len(x) = n - 1}, m \in KernelTurns}

\* the session manager of services/, constructed and not started
ManagerUnused ==
    /\ sessions = <<>>
    /\ session_pool = <<>>
    /\ pool_lock = Free
    /\ ks = [o \in Obj |-> Blank]
    /\ nobj = 0
    /\ now = 0
    /\ calls = [c \in Calls |-> IdleCall]
    /\ refill = [pc |-> "sleep", left |-> 0, cur |-> NoObj]
    /\ cleanup = [pc |-> "sleep", to_remove |-> <<>>, cur |-> NoObj]
    /\ svc = [pc |-> "constructed", left |-> 0, cur |-> NoObj, todo |-> <<>>]
    /\ ops = 0
    /\ nids = 0
    /\ faults = 0
    /\ max_kernels = MaxKernels
    /\ iopub = <<>>
    /\ worker = [cur |-> 0, left |-> 0, queue |-> <<>>]
    /\ exec = [c \in Calls |-> NoExec]
    /\ emitted = [m \in 1..MaxExecs |-> <<>>]
    /\ disk = [d \in Ids |-> NoDir]
    /\ acq = [c \in Calls |-> NoAcq]

InitGateway ==
    /\ ManagerUnused
    /\ StoreUnused
    /\ kernel_msgs \in Scripts(MaxMsgs)
    /\ \E f \in BOOLEAN :
          /\ gw_stream = [NoRun EXCEPT !.fails = f]
          /\ gw_sync = [NoRun EXCEPT !.fails = f]
    /\ gw_sessions = [id \in GwIds |-> NoKernel]
    /\ gw_kernels = <<>>

\* POST /execute, up to the first turn of the loop. get_or_create_session
\* raising leaves the generator before its try: stream_results catches it and
\* yields ErrorOutput(error=str(e), traceback=[]) (api.py L63-65).
StreamBegin ==
    /\ gw_stream.pc = "idle"
    /\ gw_stream' =
          IF gw_stream.fails
          THEN [gw_stream EXCEPT !.pc = "done", !.out = <<ErrorOutput("str(e)", "empty", 0)>>]
          ELSE [gw_stream EXCEPT !.pc = "loop", !.session = GwBegin(@)]
    /\ UNCHANGED <<mgrVars, ks, now, calls, ops, faults, loopVars, fileVars, storeVars,
                   kernel_msgs, gw_sync, gw_sessions, gw_kernels>>

\* One turn of the loop of execute_code (kernel_manager.py L152-212) and of
\* stream_results, which translates what the loop yields (api.py L53-61)
StreamTurn ==
    /\ gw_stream.pc = "loop"
    /\ LET m == Turn(gw_stream)
           n == gw_stream.pos
           ended == [gw_stream EXCEPT !.pc = "done", !.pos = n + 1, !.session = GwEpilogue(@)]
           overdue == [ended EXCEPT !.interrupts = @ + 1,
                                    !.out = Put(@, _process_message(TimeoutMessage, 0))]
       IN  gw_stream' =
             CASE m.msg_type = "quiet" ->
                    IF m.late THEN overdue ELSE [gw_stream EXCEPT !.pos = n + 1]
               [] m.msg_type \in {"raise", "other"} ->
                    [ended EXCEPT !.out = Put(@, _process_message(ExceptionMessage, 0))]
               [] OTHER ->
                    LET got == Put(gw_stream.out, _process_message(m, n))
                    IN  IF m.msg_type = "status" /\ m.idle
                        THEN [ended EXCEPT !.out = got]
                        ELSE IF m.late
                        THEN [overdue EXCEPT !.out = Put(got, _process_message(TimeoutMessage, 0))]
                        ELSE [gw_stream EXCEPT !.pos = n + 1, !.out = got]
    /\ UNCHANGED <<mgrVars, ks, now, calls, ops, faults, loopVars, fileVars, storeVars,
                   kernel_msgs, gw_sync, gw_sessions, gw_kernels>>

\* POST /execute_sync, up to the first turn of its loop (api.py L83-95).
\* get_or_create_session raising is caught at L123, and the finally clause then
\* reads `session`, which was never bound: the handler raises.
SyncBegin ==
    /\ gw_sync.pc = "idle"
    /\ gw_sync' =
          IF gw_sync.fails
          THEN [gw_sync EXCEPT !.pc = "done", !.response.status = "raised"]
          ELSE [gw_sync EXCEPT !.pc = "loop", !.session = GwBegin(@)]
    /\ UNCHANGED <<mgrVars, ks, now, calls, ops, faults, loopVars, fileVars, storeVars,
                   kernel_msgs, gw_stream, gw_sessions, gw_kernels>>

\* One turn of the loop of execute_code_sync (api.py L96-128)
SyncTurn ==
    /\ gw_sync.pc = "loop"
    /\ LET m == Turn(gw_sync)
           n == gw_sync.pos
           ended == [gw_sync EXCEPT !.pc = "built", !.pos = n + 1, !.session = GwEpilogue(@)]
           overdue == [ended EXCEPT !.interrupts = @ + 1]
       IN  gw_sync' =
             CASE m.msg_type = "quiet" ->
                    IF m.late THEN overdue ELSE [gw_sync EXCEPT !.pos = n + 1]
               [] m.msg_type \in {"raise", "other"} -> ended
               [] OTHER ->
                    LET got == Put(gw_sync.out, _process_message(m, n))
                    IN  IF m.msg_type = "status" /\ m.idle
                        THEN [ended EXCEPT !.out = got]
                        ELSE IF m.late
                        THEN [overdue EXCEPT !.out = got]
                        ELSE [gw_sync EXCEPT !.pos = n + 1, !.out = got]
    /\ UNCHANGED <<mgrVars, ks, now, calls, ops, faults, loopVars, fileVars, storeVars,
                   kernel_msgs, gw_stream, gw_sessions, gw_kernels>>

\* execute_code_sync L129-149: the outputs are sorted into the response
SyncRespond ==
    /\ gw_sync.pc = "built"
    /\ gw_sync' = [gw_sync EXCEPT !.pc = "done", !.response = ExecuteSyncResponse(gw_sync.out)]
    /\ UNCHANGED <<mgrVars, ks, now, calls, ops, faults, loopVars, fileVars, storeVars,
                   kernel_msgs, gw_stream, gw_sessions, gw_kernels>>

NextGateway ==
    \/ StreamBegin
    \/ StreamTurn
    \/ SyncBegin
    \/ SyncTurn
    \/ SyncRespond

SpecGateway == InitGateway /\ [][NextGateway]_vars

\* ==========================================================================
\* The gateway's sessions: get_or_create_session, and the two ways a client
\* terminates a session (the MCP tool and DELETE /sessions/{id})
\* ==========================================================================

\* a kernel of the gateway: running or stopped, with its session's fields
GwKernel(st) == [st |-> st, is_busy |-> FALSE, execution_count |-> 0]

GwActive == {id \in GwIds : gw_sessions[id] # NoKernel}

\* _cleanup_oldest_session: the idle session created first (kernels are
\* numbered in the order of their construction), NoKernel if all are busy
GwOldestIdle ==
    LET idle == {gw_sessions[id] : id \in {i \in GwActive : ~gw_kernels[gw_sessions[i]].is_busy}}
    IN  IF idle = {} THEN NoKernel ELSE CHOOSE k \in idle : \A j \in idle : k <= j

\* KernelSession.stop of the gateway: shutdown_kernel
GwStopped(kernels, k) == [kernels EXCEPT ![k].st = "stopped"]

InitMcp == Init

\* get_or_create_session for an id that is not in sessions (L112-130): at the
\* limit the oldest idle session is popped and stopped; the new session is
\* started and inserted, or stopped when its start raises.
GwCreate(id, ok) ==
    /\ gw_sessions[id] = NoKernel
    /\ Len(gw_kernels) < MaxGwKernels
    /\ LET evict == IF Cardinality(GwActive) >= max_kernels THEN GwOldestIdle ELSE NoKernel
           kept == [i \in GwIds |-> IF gw_sessions[i] = evict THEN NoKernel ELSE gw_sessions[i]]
           rest == IF evict = NoKernel THEN gw_kernels ELSE GwStopped(gw_kernels, evict)
           k == Len(gw_kernels) + 1
       IN  /\ gw_kernels' = Append(rest, GwKernel(IF ok THEN "running" ELSE "stopped"))
           /\ gw_sessions' = IF ok THEN [kept EXCEPT ![id] = k] ELSE kept
    /\ UNCHANGED <<mgrVars, ks, now, calls, ops, faults, loopVars, fileVars, storeVars,
                   kernel_msgs, gw_stream, gw_sync>>

\* execute_code on a session of sessions, up to the loop (L139-146)
GwExecuteBegin(id) ==
    /\ gw_sessions[id] # NoKernel
    /\ gw_kernels[gw_sessions[id]].execution_count < MaxCount
    /\ gw_kernels' = [gw_kernels EXCEPT ![gw_sessions[id]] = GwBegin(@)]
    /\ UNCHANGED <<mgrVars, ks, now, calls, ops, faults, loopVars, fileVars, storeVars,
                   kernel_msgs, gw_stream, gw_sync, gw_sessions>>

\* the finally clause of an execution (L210-212), on the session it holds
GwExecuteEnd(k) ==
    /\ k \in 1..Len(gw_kernels)
    /\ gw_kernels[k].is_busy
    /\ gw_kernels' = [gw_kernels EXCEPT ![k].is_busy = FALSE]
    /\ UNCHANGED <<mgrVars, ks, now, calls, ops, faults, loopVars, fileVars, storeVars,
                   kernel_msgs, gw_stream, gw_sync, gw_sessions>>

\* the MCP tool terminate_session (mcp_server.py L129-147)
McpTerminate(id) ==
    /\ gw_sessions' = [gw_sessions EXCEPT ![id] = NoKernel]
    /\ UNCHANGED <<mgrVars, ks, now, calls, ops, faults, loopVars, fileVars, storeVars,
                   kernel_msgs, gw_stream, gw_sync, gw_kernels>>

\* DELETE /sessions/{session_id} (api.py L163-175): 404 for an unknown id,
\* else the session is popped and stopped
ApiTerminate(id) ==
    /\ gw_sessions' = [gw_sessions EXCEPT ![id] = NoKernel]
    /\ gw_kernels' = IF gw_sessions[id] = NoKernel THEN gw_kernels
                     ELSE GwStopped(gw_kernels, gw_sessions[id])
    /\ UNCHANGED <<mgrVars, ks, now, calls, ops, faults, loopVars, fileVars, storeVars,
                   kernel_msgs, gw_stream, gw_sync>>

NextMcp ==
    \/ \E id \in GwIds, ok \in BOOLEAN : GwCreate(id, ok)
    \/ \E id \in GwIds : GwExecuteBegin(id)
    \/ \E k \in 1..MaxGwKernels : GwExecuteEnd(k)
    \/ \E id \in GwIds : McpTerminate(id)
    \/ \E id \in GwIds : ApiTerminate(id)

SpecMcp == InitMcp /\ [][NextMcp]_vars

\* ==========================================================================
\* download_file, and _process_file_urls which calls it for each url
\* ==========================================================================

\* What a url answers: status 0 (no response: the connection fails or times
\* out), a non-200 status, or 200 with or without a Content-Disposition
\* filename; breaks: the transport fails while the body is read.
Replies ==
    {[status |-> 0, name |-> NoName, breaks |-> FALSE],
     [status |-> 404, name |-> NoName, breaks |-> FALSE],
     [status |-> 200, name |-> NoName, breaks |-> FALSE]}
    \cup {[status |-> 200, name |-> n, breaks |-> b] : n \in Names, b \in BOOLEAN}

\* All lists of at most n urls
RECURSIVE UrlLists(_)
UrlLists(n) ==
    IF n = 0 THEN {<<>>}
    ELSE LET shorter == UrlLists(n - 1)
         IN  shorter \cup {Append(q, u) : q \in {x \in shorter : Len(x) = n - 1}, u \in Replies}

\* download_file returns (filename, error)
Returned(d, name, err) == [d EXCEPT !.pc = "returned", !.ret_filename = name, !.ret_error = err]

InitDownload ==
    /\ ManagerUnused
    /\ GatewayUnused
    /\ config_path = NoFile
    /\ session_config = NoObject
    /\ target_dir \in [Names -> {"absent", "complete"}]
    /\ download = NoDownload
    /\ \E l \in UrlLists(MaxUrls) :
          urls = [NoUrls EXCEPT !.pc = "loop", !.file_urls = l, !.given = Len(l)]

\* _process_file_urls L181-182: the next url is handed to download_file
ProcessUrl ==
    /\ urls.pc = "loop"
    /\ urls.file_urls # <<>>
    /\ download.pc = "idle"
    /\ download' = [NoDownload EXCEPT !.pc = "requested", !.url = Head(urls.file_urls),
                                     !.before = target_dir]
    /\ UNCHANGED <<mgrVars, ks, now, calls, ops, faults, loopVars, fileVars, gatewayVars,
                   config_path, session_config, target_dir, urls>>

\* download_file L63-77 and L82-91: the response arrives, or the request fails.
\* With status 200 and a filename the file is opened 'wb' in the directory:
\* it exists from here on, empty.
DownloadResponse ==
    /\ download.pc = "requested"
    /\ LET u == download.url
       IN  IF u.status = 200 /\ u.name # NoName
           THEN /\ download' = [download EXCEPT !.pc = "streaming", !.filename = u.name]
                /\ target_dir' = [target_dir EXCEPT ![u.name] = "partial"]
           ELSE /\ download' = Returned(download, NoName, TRUE)
                /\ UNCHANGED target_dir
    /\ UNCHANGED <<mgrVars, ks, now, calls, ops, faults, loopVars, fileVars, gatewayVars,
                   config_path, session_config, urls>>

\* download_file L78-81 and L87-91: the body is written chunk by chunk; when
\* the transport fails the exception is caught and (None, error) returned.
DownloadBody ==
    /\ download.pc = "streaming"
    /\ IF download.url.breaks
       THEN /\ download' = Returned(download, NoName, TRUE)
            /\ UNCHANGED target_dir
       ELSE /\ download' = Returned(download, download.filename, FALSE)
            /\ target_dir' = [target_dir EXCEPT ![download.filename] = "complete"]
    /\ UNCHANGED <<mgrVars, ks, now, calls, ops, faults, loopVars, fileVars, gatewayVars,
                   config_path, session_config, urls>>

\* _process_file_urls L183-187: the pair download_file returned is recorded
UrlDone ==
    /\ download.pc = "returned"
    /\ urls' = [urls EXCEPT
                  !.file_urls = Tail(@),
                  !.errors = IF download.ret_error THEN @ + 1 ELSE @,
                  !.downloaded_files = IF download.ret_error THEN @
                                       ELSE AppendNew(@, download.ret_filename)]
    /\ download' = NoDownload
    /\ UNCHANGED <<mgrVars, ks, now, calls, ops, faults, loopVars, fileVars, gatewayVars,
                   config_path, session_config, target_dir>>

\* _process_file_urls L188: return errors
UrlsReturn ==
    /\ urls.pc = "loop"
    /\ urls.file_urls = <<>>
    /\ download.pc = "idle"
    /\ urls' = [urls EXCEPT !.pc = "done"]
    /\ UNCHANGED <<mgrVars, ks, now, calls, ops, faults, loopVars, fileVars, gatewayVars,
                   config_path, session_config, target_dir, download>>

NextDownload ==
    \/ ProcessUrl
    \/ DownloadResponse
    \/ DownloadBody
    \/ UrlDone
    \/ UrlsReturn

SpecDownload == InitDownload /\ [][NextDownload]_vars

\* ==========================================================================
\* SessionFileConfig: one object in memory and the file '.session_files.json'
\* ==========================================================================

\* json.dump of a _config: the pairs of the ids that have a filename
json_dump(cfg) == {<<f, cfg[f]>> : f \in {g \in FileIds : cfg[g] # NoName}}

\* json.load of a complete document
json_load(doc) ==
    [f \in FileIds |-> IF \E p \in doc : p[1] = f
                       THEN (CHOOSE p \in doc : p[1] = f)[2]
                       ELSE NoName]

\* _load_config L27-38 on a file: {} when the file is absent, and {} when
\* json.load raises because the file is empty or cut short
LoadedFrom(file) == IF file.state = "whole" THEN json_load(file.doc) ELSE NoConfig

\* every _config the bounds allow
Configs == [FileIds -> Names \cup {NoName}]

InitManifest ==
    /\ ManagerUnused
    /\ GatewayUnused
    /\ target_dir = [n \in Names |-> "absent"]
    /\ download = NoDownload
    /\ urls = NoUrls
    /\ config_path \in {NoFile} \cup {WholeFile(json_dump(c)) : c \in Configs}
    /\ session_config = [pc |-> "idle", _config |-> LoadedFrom(config_path),
                         before |-> config_path, after |-> config_path]

\* _save_config L42-44, entered with the new _config c: makedirs, then
\* open(config_path, 'w'), which empties the file. When either raises the
\* exception is logged (L47-48) and the file is as it was.
SaveBegins(c, opens) ==
    /\ session_config' = [pc |-> IF opens THEN "saving" ELSE "idle", _config |-> c,
                          before |-> config_path, after |-> WholeFile(json_dump(c))]
    /\ config_path' = IF opens THEN TornFile ELSE config_path

\* add_file L72-81, up to the open of the file
AddFile(f, n, opens) ==
    /\ session_config.pc = "idle"
    /\ ops < MaxSaves
    /\ ops' = ops + 1
    /\ SaveBegins(add_file(session_config._config, f, n), opens)
    /\ UNCHANGED <<mgrVars, ks, now, calls, faults, loopVars, fileVars, gatewayVars,
                   target_dir, download, urls>>

\* remove_file L83-92, up to the open of the file; nothing happens for an id
\* that is not in _config
RemoveFile(f, opens) ==
    /\ session_config.pc = "idle"
    /\ ops < MaxSaves
    /\ ops' = ops + 1
    /\ IF has_file(session_config._config, f)
       THEN SaveBegins(remove_file(session_config._config, f), opens)
       ELSE UNCHANGED <<session_config, config_path>>
    /\ UNCHANGED <<mgrVars, ks, now, calls, faults, loopVars, fileVars, gatewayVars,
                   target_dir, download, urls>>

\* clear_all_files L110-119, up to the open of the file
ClearAllFiles(opens) ==
    /\ session_config.pc = "idle"
    /\ ops < MaxSaves
    /\ ops' = ops + 1
    /\ SaveBegins(NoConfig, opens)
    /\ UNCHANGED <<mgrVars, ks, now, calls, faults, loopVars, fileVars, gatewayVars,
                   target_dir, download, urls>>

\* _save_config L45-48: json.dump writes the document and the file is closed;
\* when the write raises (the disk is full) the exception is logged and the
\* file stays cut short
SaveWritten(ok) ==
    /\ session_config.pc = "saving"
    /\ session_config' = [session_config EXCEPT !.pc = "idle"]
    /\ config_path' = IF ok THEN session_config.after ELSE config_path
    /\ UNCHANGED <<mgrVars, ks, now, calls, ops, faults, loopVars, fileVars, gatewayVars,
                   target_dir, download, urls>>

\* the process ends between the open and the end of the write
Crash ==
    /\ session_config.pc = "saving"
    /\ session_config' = [session_config EXCEPT !.pc = "none", !._config = NoConfig]
    /\ UNCHANGED <<mgrVars, ks, now, calls, ops, faults, loopVars, fileVars, gatewayVars,
                   config_path, target_dir, download, urls>>

\* SessionFileConfig.__init__ L16-25 in a new process: _load_config
Restart ==
    /\ session_config.pc = "none"
    /\ session_config' = [session_config EXCEPT !.pc = "idle", !._config = LoadedFrom(config_path)]
    /\ UNCHANGED <<mgrVars, ks, now, calls, ops, faults, loopVars, fileVars, gatewayVars,
                   config_path, target_dir, download, urls>>

NextManifest ==
    \/ \E f \in FileIds, n \in Names, opens \in BOOLEAN : AddFile(f, n, opens)
    \/ \E f \in FileIds, opens \in BOOLEAN : RemoveFile(f, opens)
    \/ \E opens \in BOOLEAN : ClearAllFiles(opens)
    \/ \E ok \in BOOLEAN : SaveWritten(ok)
    \/ Crash
    \/ Restart

SpecManifest == InitManifest /\ [][NextManifest]_vars

\* ------------------------------------------------------------- properties

PoolSet == {session_pool[i] : i \in 1..Len(session_pool)}

\* The calls whose Execution Loop is in progress on session object o
LoopsOn(o) == {c \in Calls : calls[c].pc \in LoopPcs /\ calls[c].s = o}

\* C1: executions on one session are serialized by busy: at most one Execution
\* Loop is in progress on a session, and a busy session has exactly one.
C1_SerializedByBusy ==
    \A o \in Obj :
        /\ Cardinality(LoopsOn(o)) <= 1
        /\ ks[o].is_busy => Cardinality(LoopsOn(o)) = 1

\* C6: a session is in at most one place: never both in the pool and in
\* sessions, never twice in the pool, never under two ids in sessions.
C6_OnePlace ==
    /\ PoolSet \cap Values(sessions) = {}
    /\ \A i, j \in 1..Len(session_pool) : session_pool[i] = session_pool[j] => i = j
    /\ \A i, j \in 1..Len(sessions) : sessions[i][2] = sessions[j][2] => i = j

\* A terminate call has put its session back into the pool while other sessions
\* are active and the other call is under way.
C6_Witness ==
    \E c \in Calls :
        /\ calls[c].op = "terminate"
        /\ calls[c].pc = "done"
        /\ calls[c].rel \in PoolSet
        /\ sessions # <<>>
        /\ \E d \in Calls : calls[d].pc \notin {"idle", "done"}

\* C7: the pool never holds more than session_pool_size sessions.
C7_PoolWithinTarget == Len(session_pool) <= session_pool_size

\* A released session finds the pool full: it is being stopped, not appended.
C7_Witness ==
    \E c \in Calls :
        /\ calls[c].pc = "stop_locked"
        /\ Len(session_pool) = session_pool_size
        /\ ks[calls[c].rel].st = "running"

\* C8: pooled plus active sessions never exceed max_kernels plus
\* session_pool_size.
C8_TotalWithinCapacity ==
    Len(session_pool) + Len(sessions) <= max_kernels + session_pool_size

\* Call c asks for a session under an id that sessions does not hold
RequestsNew(c) ==
    /\ calls[c].pc = "idle"
    /\ calls'[c].op \in {"acquire", "execute"}
    /\ calls'[c].pc \in {"return_pool", "get_pool"}

\* Call c, which is creating a session, returns it to its caller
CreateCompletes(c) ==
    /\ calls[c].pc \in {"chdir", "files", "start"}
    /\ \/ calls'[c].pc = "loop"
       \/ calls'[c].pc = "done" /\ calls'[c].ret = "ok"

\* sessions without its i-th entry
Without(m, i) == SubSeq(m, 1, i - 1) \o SubSeq(m, i + 1, Len(m))

\* C9: a request for a new session at capacity removes from sessions exactly one
\* session, one with the least created_at among those not busy; when every
\* session is busy (or below capacity) nothing is removed and creation goes on;
\* when the creation completes the new id is in sessions.
C9_EvictsOldestIdle ==
    [][\A c \in Calls :
          /\ RequestsNew(c) =>
                LET idle == {i \in 1..Len(sessions) : ~ks[sessions[i][2]].is_busy}
                IN IF Len(sessions) >= max_kernels /\ idle # {}
                   THEN \E i \in idle :
                            /\ \A j \in idle :
                                  created_at(sessions[i][2]) <= created_at(sessions[j][2])
                            /\ sessions' = Without(sessions, i)
                            /\ calls'[c].rel = sessions[i][2]
                   ELSE /\ sessions' = sessions
                        /\ calls'[c].pc = "get_pool"
          /\ CreateCompletes(c) => HasKey(sessions', calls[c].id)]_vars

\* An eviction has passed over an older session because it is busy.
C9_Witness ==
    \E c \in Calls :
        /\ calls[c].op \in {"acquire", "execute"}
        /\ calls[c].pc = "return_pool"
        /\ \E i \in 1..Len(sessions) :
              /\ ks[sessions[i][2]].is_busy
              /\ created_at(sessions[i][2]) < created_at(calls[c].rel)

\* The release of a session by call c is over
ReleaseEnds(c) ==
    /\ calls[c].pc \in {"return_pool", "stop_again"}
    /\ calls'[c].pc \notin {"return_pool", "stop_locked", "stop_again"}

\* C10: a session released by terminate_session or by eviction ends in the pool
\* with stop never called on it, or outside the pool with stop called on it
\* exactly once.
C10_PooledOrStoppedOnce ==
    [][\A c \in Calls :
          ReleaseEnds(c) =>
              LET s == calls[c].rel
              IN \/ s \in PoolSet' /\ ks'[s].stops = 0
                 \/ s \notin PoolSet' /\ ks'[s].stops = 1]_vars

\* The worker messages among the events a call has yielded
WorkerEvents(out) == SelectSeq(out, LAMBDA m : m.parent # 0)

IsPrefix(a, b) == Len(a) <= Len(b) /\ \A i \in 1..Len(a) : a[i] = b[i]

\* C2: once execute_code has marked the session busy, however its loop ends
\* (status idle, timeout, exception of the submission or of the read, the
\* consumer closing the stream), the session is left not busy and touched.
C2_EpilogueGuaranteed ==
    [][\A c \in Calls :
          calls[c].pc \in LoopPcs /\ calls'[c].pc \notin LoopPcs =>
              /\ ~ks'[calls[c].s].is_busy
              /\ ks'[calls[c].s].last_activity = now']_vars

\* An execution closed by its consumer late in its wait has left the session
\* not busy.
C2_Witness ==
    \E c \in Calls :
        /\ calls[c].pc = "done"
        /\ calls[c].ret = "closed"
        /\ exec[c].polled
        /\ ~ks[calls[c].s].is_busy
        /\ ks[calls[c].s].last_activity = now

\* C3: an execution that passed its deadline before the worker reported status
\* idle, and met no exception, has interrupted the worker, has yielded "Execution timeout" once, as its
\* last event, and has left the session active, not busy, with execution_count
\* one higher than before the call.
C3_TimeoutOutcome ==
    \A c \in Calls :
        /\ calls[c].pc = "done" /\ calls[c].ret = "ok" /\ exec[c].overdue
        /\ \A i \in 1..Len(exec[c].out) : exec[c].out[i] # ErrorEvent
        =>  LET out == exec[c].out
                s == calls[c].s
            IN /\ exec[c].interrupts = 1
               /\ out # <<>> /\ out[Len(out)] = TimeoutEvent
               /\ Cardinality({i \in 1..Len(out) : out[i] = TimeoutEvent}) = 1
               /\ HasKey(sessions, calls[c].id)
               /\ ~ks[s].is_busy
               /\ ks[s].execution_count = calls[c].count0 + 1

\* C4: an execution with timeout 0 that has seen its first 1-second poll run out
\* is no longer waiting for messages: it is interrupting the worker or has
\* yielded the timeout event.
C4_ZeroTimeout ==
    \A c \in Calls :
        exec[c].msg_id # 0 /\ exec[c].timeout = 0 /\ exec[c].polled =>
            \/ calls[c].pc \in {"interrupting", "yield_timeout"}
            \/ /\ calls[c].pc = "done"
               /\ exec[c].out # <<>>
               /\ exec[c].out[Len(exec[c].out)] = TimeoutEvent

\* C5: the worker messages an execution yields are those the worker emitted for
\* its own submission, in the order of emission and without gaps, all of them
\* when the loop ended on status idle; no message of another submission is
\* yielded.
C5_OwnMessagesInOrder ==
    \A c \in Calls :
        exec[c].msg_id # 0 =>
            LET mine == WorkerEvents(exec[c].out)
            IN /\ \A i \in 1..Len(mine) : mine[i].parent = exec[c].msg_id
               /\ IsPrefix(mine, emitted[exec[c].msg_id])
               /\ (calls[c].pc = "done" /\ mine # <<>> /\ mine[Len(mine)].kind = "idle")
                     => mine = emitted[exec[c].msg_id]

\* The session the cleanup task pops in this step, NoObj when it pops none
CleanupPops ==
    IF cleanup'.pc = "stopping" /\ (cleanup.pc = "sleep" \/ cleanup'.to_remove # cleanup.to_remove)
    THEN cleanup'.cur ELSE NoObj

\* C11: a cleanup tick selects exactly the sessions that are not busy and idle
\* for longer than kernel_timeout; each session it takes out of sessions is, at
\* that moment, not busy and idle for longer than kernel_timeout, and is then
\* stopped, never put into the pool; every other session stays in sessions.
C11_IdleCleanup ==
    [][/\ (cleanup.pc = "sleep" /\ cleanup' # cleanup) =>
             {cleanup'.to_remove[i] : i \in 1..Len(cleanup'.to_remove)}
                 \cup {e[1] : e \in {sessions[i] : i \in 1..Len(sessions)} \ {sessions'[i] : i \in 1..Len(sessions')}}
             = {sessions[i][1] : i \in {j \in 1..Len(sessions) :
                                          /\ ~ks[sessions[j][2]].is_busy
                                          /\ now - ks[sessions[j][2]].last_activity > kernel_timeout}}
       /\ CleanupPops # NoObj =>
             /\ ~ks[CleanupPops].is_busy
             /\ now - ks[CleanupPops].last_activity > kernel_timeout
             /\ Values(sessions') = Values(sessions) \ {CleanupPops}
       /\ (cleanup.pc = "stopping" /\ cleanup' # cleanup) =>
             /\ ks'[cleanup.cur].stops = ks[cleanup.cur].stops + 1
             /\ cleanup.cur \notin PoolSet']_vars

\* Call c acquires a session under an id that sessions holds
AcquiresExisting(c) ==
    /\ calls[c].pc = "idle"
    /\ calls'[c].op = "acquire"
    /\ calls'[c].pc \in {"reuse_files", "done"}

\* C12: acquiring with an id that is in sessions returns the very session bound
\* to it, touches it, constructs and starts no session, pops nothing from the
\* pool and leaves sessions as it is, at entry and when its downloads are over;
\* every id in sessions is bound to a session that carries this id and whose
\* working directory is the directory of this id.
C12_AcquireExisting ==
    [][/\ \A c \in Calls :
             /\ AcquiresExisting(c) =>
                   LET s == Get(sessions, calls'[c].id)
                   IN /\ calls'[c].s = s
                      /\ ks' = [ks EXCEPT ![s].last_activity = now]
                      /\ <<sessions, session_pool, nobj>>' = <<sessions, session_pool, nobj>>
             /\ calls[c].pc = "reuse_files" /\ calls'[c].pc # "reuse_files" =>
                   /\ calls'[c].pc = "done" /\ calls'[c].ret = "ok"
                   /\ calls'[c].s = calls[c].s
                   /\ <<sessions, session_pool, nobj, ks>>' = <<sessions, session_pool, nobj, ks>>
       /\ \A i \in 1..Len(sessions') :
             /\ ks'[sessions'[i][2]].session_id = sessions'[i][1]
             /\ cwd(ks'[sessions'[i][2]]) = sessions'[i][1]]_vars

\* A session that came from the pool is acquired again under its id, later
\* than it was created, while the pool holds a session; its downloads run.
C12_Witness ==
    \E c \in Calls :
        /\ calls[c].pc = "reuse_files"
        /\ HasKey(sessions, calls[c].id)
        /\ Get(sessions, calls[c].id) = calls[c].s
        /\ ks[calls[c].s].last_activity = now
        /\ now > 0
        /\ session_pool # <<>>

\* C13: an acquire call that has fetched its files, whatever the downloads did,
\* returns a session, and the session it returns is in sessions under the id.
C13_AcquireReturnsActive ==
    \A c \in Calls :
        calls[c].op = "acquire" /\ calls[c].files /\ calls[c].pc = "done" /\ calls[c].ret = "ok" =>
            /\ HasKey(sessions, calls[c].id)
            /\ Get(sessions, calls[c].id) = calls[c].s

\* The entries of directory d's persisted manifest refer to files that exist
ManifestBacked(d) ==
    \A f \in FileIds : has_file(d.manifest, f) => get_filename(d.manifest, f) \in d.files

\* C14: when an acquisition returns a session, on the reuse path or on the
\* new-session path (also into a directory that holds a manifest from an earlier
\* process), every entry of the persisted manifest of the session's working
\* directory refers to a file that exists in that directory.
C14_ManifestBackedAtReturn ==
    \A c \in Calls :
        calls[c].op = "acquire" /\ calls[c].pc = "done" /\ calls[c].ret = "ok" =>
            ManifestBacked(disk[Dir(c)])


\* How many times n is listed in seq
Occurrences(seq, n) == Cardinality({i \in 1..Len(seq) : seq[i] = n})

\* Call c takes the manifest check of its next file item in this step
ChecksItem(c) ==
    /\ calls[c].pc = "items" /\ acq[c].todo # <<>>
    /\ acq'[c] # acq[c] \/ calls'[c].pc # "items"

\* C15: when a file id is resupplied that the manifest has: if its file exists
\* nothing is fetched and the filename is listed once in downloaded_files; if
\* its file is missing the entry is removed from the manifest and the file
\* fetched, and the manifest maps the id again, to the new filename, exactly
\* when the fetch succeeds.
C15_Resupply ==
    [][\A c \in Calls :
          LET f == Head(acq[c].todo)
              d == Dir(c)
              n == get_filename(acq[c].config, f)
          IN /\ ChecksItem(c) /\ has_file(acq[c].config, f) =>
                  IF n \in disk[d].files
                  THEN /\ calls'[c].pc = "items"
                       /\ disk' = disk
                       /\ Occurrences(acq'[c].downloaded_files, n) = 1
                  ELSE /\ calls'[c].pc = "download"
                       /\ ~has_file(disk'[d].manifest, f)
             /\ calls[c].pc = "download" /\ calls'[c].pc = "items" /\ acq[c].purged =>
                  IF acq'[c].errors = acq[c].errors
                  THEN /\ has_file(disk'[d].manifest, f)
                       /\ get_filename(disk'[d].manifest, f) \in disk'[d].files
                       /\ Occurrences(acq'[c].downloaded_files, get_filename(disk'[d].manifest, f)) = 1
                  ELSE disk'[d].manifest = disk[d].manifest
      ]_vars


\* Call c, holding pool_lock, decides in this step what becomes of the session
\* it released
ReleaseDecides(c) == calls[c].pc = "return_pool" /\ calls'[c].pc # "return_pool"

\* Session r is appended to the pool in this step: reset, its working
\* directory without files and with an empty manifest
PushedClean(r) ==
    /\ session_pool' = Append(session_pool, r)
    /\ ks'[r].execution_count = 0
    /\ ~ks'[r].is_busy
    /\ cwd(ks[r]) \in Ids =>
          /\ disk'[cwd(ks[r])].files = {}
          /\ ~disk'[cwd(ks[r])].subdirs
          /\ disk'[cwd(ks[r])].manifest = NoConfig

\* Call c goes on to stop the session it released, which is not pooled
GoesToStop(c) == calls'[c].pc = "stop_locked" /\ session_pool' = session_pool

\* What holds of every release whatever becomes of the session: the stop that
\* was begun stops it, at the end the session is not in sessions, and a create
\* that completes hands out a session whose execution_count is 0
ReleaseFrame(c) ==
    /\ calls[c].pc = "stop_locked" /\ calls'[c].pc # "stop_locked" =>
          ks'[calls[c].rel].st = "stopped"
    /\ ReleaseEnds(c) => calls[c].rel \notin Values(sessions')
    /\ CreateCompletes(c) =>
          IF calls'[c].pc = "loop" THEN calls'[c].count0 = 0
          ELSE ks'[calls[c].s].execution_count = 0

\* C16: a released session is appended to the pool with execution_count 0, not
\* busy, nothing left in its working directory and an empty manifest, when the
\* pool is below its target (and its directory is there and nothing of the
\* environment fails while it is cleaned); otherwise it is stopped.  It is
\* then not in sessions, and a create that completes returns a session with
\* execution_count 0.
C16_Release ==
    [][\A c \in Calls :
          /\ ReleaseDecides(c) =>
                IF /\ PoolHasRoom(session_pool)
                   /\ DirExists(disk, ks[calls[c].rel])
                   /\ faults' = faults
                THEN PushedClean(calls[c].rel)
                ELSE GoesToStop(c)
          /\ ReleaseFrame(c)]_vars


\* C17: when get_iopub_msg raises during an execution, the execution ends
\* having yielded one error event, after all it had yielded before, and the
\* session has been stopped and is no longer in sessions.
C17_ReadFailureTearsDown ==
    \A c \in Calls :
        calls[c].pc = "done" /\ exec[c].read_failed =>
            /\ exec[c].out # <<>>
            /\ exec[c].out[Len(exec[c].out)] = ErrorEvent
            /\ Occurrences(exec[c].out, ErrorEvent) = 1
            /\ ks[calls[c].s].st = "stopped"
            /\ ~HasKey(sessions, calls[c].id)


\* C18: when the wait for the chdir of a session taken from the pool ends
\* without status idle, the call ends with the session stopped and not in
\* sessions; and a session taken from the pool is put in sessions only by a
\* step that comes after its chdir reached status idle.
C18_ChdirFailureDestroys ==
    [][\A c \in Calls :
          /\ calls[c].pc = "chdir" => calls[c].s \notin Values(sessions)
          /\ calls[c].pc = "chdir" /\ calls'[c].pc = "done" /\ calls'[c].ret = "raised" =>
                /\ ks'[calls[c].s].st = "stopped"
                /\ calls[c].s \notin Values(sessions')
                /\ calls[c].s \notin PoolSet']_vars


\* stop() returns on session o in this step, called by idle cleanup or by the
\* release of the session (not by a create whose start failed)
StopReturns(o) ==
    /\ ks'[o].stops > ks[o].stops
    /\ \A c \in Calls : ~(calls[c].pc = "fail_stop" /\ calls[c].s = o)

\* C19: when stop() has returned on a session (stopped by idle cleanup, for a
\* full pool, or after a failed return to the pool), the
\* working directory of the session does not exist, and the session's id is
\* not a key of sessions and not the id of a session in the pool.
C19_AfterStop ==
    [][\A o \in Obj :
          StopReturns(o) /\ ks[o].session_id \in Ids =>
              /\ ~disk'[cwd(ks[o])].exists
              /\ ~HasKey(sessions', ks[o].session_id)
              /\ \A p \in PoolSet' : ks'[p].session_id # ks[o].session_id]_vars


\* The manager's stop() returns in this step
StopReturned == svc.pc # "stopped" /\ svc'.pc = "stopped"

\* C20: when the manager's stop() returns, both background tasks have ended,
\* sessions and session_pool are empty, and no session the manager started is
\* left running with stop() never called on it, the sessions of the calls in
\* flight included.
C20_StopLeavesNothing ==
    [][StopReturned =>
          /\ cleanup'.pc = "ended" /\ refill'.pc = "ended"
          /\ sessions' = <<>>
          /\ session_pool' = <<>>
          /\ \A o \in Obj : ks'[o].st # "running"
          /\ \A c \in Calls : calls'[c].pc \in {"files", "start", "chdir"} => ks'[calls'[c].s].st = "stopped"
      ]_vars


\* Session o is bound to the same client id before and after this step
StaysBound(o) ==
    \E i \in 1..Len(sessions) :
        /\ sessions[i][2] = o
        /\ HasKey(sessions', sessions[i][1])
        /\ Get(sessions', sessions[i][1]) = o

\* Something refers to session o after this step: its fields can still be read
StillHeld(o) == o \in Live(sessions', session_pool', calls', 0, refill', cleanup', svc')

\* The execution_count of session o changes in this step as the start of an
\* execution changes it
CountsOne(o) ==
    /\ ks'[o].execution_count = ks[o].execution_count + 1
    /\ ks'[o].is_busy

\* C21 as stated: the execution_count of a session changes only by +1, at the
\* start of an execution, or to 0 in the step that appends the session to the
\* pool; it never decreases while the session stays bound to its id.
C21_CountAsStated ==
    [][\A o \in Obj :
          /\ StaysBound(o) => ks'[o].execution_count >= ks[o].execution_count
          /\ ks'[o].execution_count # ks[o].execution_count /\ StillHeld(o) =>
                \/ CountsOne(o)
                \/ ks'[o].execution_count = 0 /\ o \in PoolSet' /\ o \notin PoolSet]_vars

\* C21: the execution_count of a session changes only by +1, at the start of an
\* execution, or to 0 in the step of its release that found room in the pool
\* (the session is then pooled, or stopped when cleaning its directory
\* failed); it never decreases while the session stays bound to its id.
C21_CountMonotone ==
    [][\A o \in Obj :
          /\ StaysBound(o) => ks'[o].execution_count >= ks[o].execution_count
          /\ ks'[o].execution_count # ks[o].execution_count /\ StillHeld(o) =>
                \/ CountsOne(o)
                \/ /\ ks'[o].execution_count = 0
                   /\ \E c \in Calls : ReleaseDecides(c) /\ calls[c].rel = o /\ PoolHasRoom(session_pool)
                   /\ o \notin Values(sessions')]_vars

\* A session bound to an id has started its second execution
C21_Witness ==
    \E i \in 1..Len(sessions) :
        /\ ks[sessions[i][2]].execution_count = 2
        /\ ks[sessions[i][2]].is_busy


\* A session the manager holds, in its active map or in its pool, that has not
\* been stopped
LiveSessions ==
    {o \in Values(sessions) \cup PoolSet : ks[o].st \notin {"none", "stopped", "cancelled"}}

\* C22: no two live sessions (active or pooled, not stopped) have the same
\* working directory.
C22_OneOwnerPerDirectory ==
    \A o \in LiveSessions : \A p \in LiveSessions :
        (o # p /\ cwd(ks[o]) \in Ids) => cwd(ks[o]) # cwd(ks[p])


\* the last OutputEvent the streaming client has received
LastStreamed == gw_stream.out[Len(gw_stream.out)]

\* C23: a streaming execution that ran into its timeout ends with an error
\* event whose message is "Execution timeout", with an empty traceback.
C23_TimeoutReachesClient ==
    gw_stream.pc = "done" /\ gw_stream.interrupts > 0 =>
        /\ gw_stream.out # <<>>
        /\ LastStreamed.kind = "error"
        /\ LastStreamed.value = "Execution timeout"
        /\ LastStreamed.traceback = "empty"

\* the two executions have ended
BothDone == gw_stream.pc = "done" /\ gw_sync.pc = "done"

\* C24: for the same kernel behaviour the synchronous execution returns the
\* aggregation (texts, images, errors, in order) of the events the streaming
\* execution emits, and both leave the session in the same state.
C24_SyncAggregatesStream ==
    BothDone =>
        /\ gw_sync.response = ExecuteSyncResponse(gw_stream.out)
        /\ gw_sync.session = gw_stream.session

\* the translation table: the event a kernel message of turn n stands for
TableEvent(m, n) ==
    CASE m.msg_type = "stream" -> TextOutput("text", n)
      [] m.msg_type \in {"display_data", "execute_result"} ->
            IF m.png THEN ImageOutput("image/png", n)
            ELSE IF m.plain THEN TextOutput("text/plain", n)
            ELSE NoEvent
      [] m.msg_type = "error" ->
            ErrorOutput(IF m.tb THEN "join(traceback)" ELSE "evalue",
                        IF m.tb THEN "lines" ELSE "empty", n)
      [] OTHER -> NoEvent

\* the events streamed for the kernel message of turn n
StreamedFor(n) == SelectSeq(gw_stream.out, LAMBDA e : e.n = n)

\* the turns whose kernel message the streaming execution has translated
Translated ==
    {n \in 1..Len(kernel_msgs) :
        /\ n < gw_stream.pos
        /\ kernel_msgs[n].msg_type \notin {"quiet", "raise", "other"}}

\* C26: every kernel message is translated as the table says.
C26_TranslationTable ==
    \A n \in Translated :
        StreamedFor(n) = Put(<<>>, TableEvent(kernel_msgs[n], n))


\* the kernel a session id is bound to has been shut down in this step
WorkerStopped(id) == gw_kernels'[gw_sessions[id]].st = "stopped"

\* C25: the MCP tool terminate_session, called for an active id, removes the
\* session from the active sessions and stops its worker, as the core
\* terminate does; for an unknown id it changes nothing.
C25_McpTerminate ==
    [][\A id \in GwIds :
          McpTerminate(id) =>
              IF gw_sessions[id] = NoKernel
              THEN UNCHANGED <<gw_sessions, gw_kernels>>
              ELSE gw_sessions'[id] = NoKernel /\ WorkerStopped(id)]_vars


\* C27: whenever download_file returns an error the filename it returns is
\* None and the destination directory holds what it held before the call.
C27_FailedDownloadLeavesNothing ==
    download.pc = "returned" /\ download.ret_error =>
        /\ download.ret_filename = NoName
        /\ target_dir = download.before

\* C30: when _process_file_urls returns, the filenames in downloaded_files and
\* the errors together are as many as the urls it was given.
C30_EveryUrlAccounted ==
    urls.pc = "done" => Len(urls.downloaded_files) + urls.errors = urls.given


\* C28: at every point during and after a mutating operation on the manifest,
\* a crash part-way included, loading the file yields the complete document
\* it held before the operation or the complete new one.
C28_AtomicReplace ==
    /\ config_path.state # "torn"
    /\ LoadedFrom(config_path) \in
          {LoadedFrom(session_config.before), LoadedFrom(session_config.after)}

\* C29: whenever no operation is in progress on the SessionFileConfig, a fresh
\* load of the file gives exactly its in-memory mapping.
C29_RoundTrip ==
    session_config.pc = "idle" => LoadedFrom(config_path) = session_config._config


\* ------------------------------------------------------------ termination
\* The time an execution is allowed: its timeout, the default when none was given
Allowed(c) ==
    IF exec[c].timeout = None THEN max_execution_time ELSE exec[c].timeout

\* Call c has made its check of the clock, after a worker message that was not
\* status idle or after a poll that ran out, and waits for the next message.
WaitsOn(c) ==
    \/ calls[c].pc = "yielded" /\ calls'[c].pc = "loop"
    \/ /\ calls[c].pc = "loop" /\ calls'[c].pc = "loop"
       /\ exec'[c].wait_from # exec[c].wait_from

\* C31: no execution loop goes on waiting after a poll tick or a message that
\* comes after its deadline: there the loop ends, whatever the worker does.
C31_EndsAtDeadline ==
    [][\A c \in Calls :
          WaitsOn(c) => now - exec[c].start_time <= Allowed(c)]_vars

\* The same, with the deadline the loop computes at L358
LoopEndsAtItsTimeout ==
    [][\A c \in Calls :
          WaitsOn(c) => now - exec[c].start_time <= exec[c].execution_timeout]_vars

\* The clock advances, the poll timer fires, messages are read, the consumer
\* asks for the next event and interrupt_kernel() comes back.
SpecLoopFair ==
    /\ SpecLoop
    /\ WF_vars(LoopTick)
    /\ \A c \in Calls :
          /\ WF_vars(Recv(c))
          /\ WF_vars(PollTimeout(c))
          /\ WF_vars(AfterYield(c))
          /\ WF_vars(\E ok \in BOOLEAN : InterruptDone(c, ok))
          /\ WF_vars(AfterLastYield(c))
          /\ WF_vars(Return(c))

\* The clock of the model has stopped before call c is past its timeout
ClockEnds(c) ==
    now = MaxLoopTime /\ now - exec[c].start_time <= exec[c].execution_timeout

\* Every execution loop ends, unless the clock stops first.
LoopTerminates ==
    \A c \in Calls :
        (calls[c].pc \in LoopPcs) ~> (calls[c].pc \notin LoopPcs \/ ClockEnds(c))


\* ------------------------------------------------------ pooled sessions
\* An Execution Loop is in progress on session o
LoopOn(o) == \E c \in Calls : calls[c].pc = "loop" /\ calls[c].s = o

\* C32: every session in the pool is not busy and has no Execution Loop in
\* progress on it, also after a terminate of its id during an execution.
C32_PooledNotInUse ==
    \A o \in PoolSet : ~ks[o].is_busy /\ ~LoopOn(o)


\* ------------------------------------------------- the cleanup tick's end
\* The session bound to id is still one the scan would select
StillEligible(id) ==
    /\ HasKey(sessions', id)
    /\ ~ks'[Get(sessions', id)].is_busy
    /\ is_idle_timeout(ks'[Get(sessions', id)], now')

\* C33: when a cleanup tick ends, none of the sessions it selected is left in
\* active still eligible, also when removing or stopping one of them raised.
C33_BestEffortPerSession ==
    [][cleanup.pc = "stopping" /\ cleanup'.pc = "sleep" =>
          \A i \in 1..Len(cleanup.to_remove) : ~StillEligible(cleanup.to_remove[i])]_vars

\* The same for the ticks in which no stop() raised
TickWithoutFailureRemovesAll ==
    [][cleanup.pc = "stopping" /\ cleanup'.pc = "sleep" /\ faults' = faults =>
          \A i \in 1..Len(cleanup.to_remove) : ~StillEligible(cleanup.to_remove[i])]_vars


\* C34: the session a cleanup tick pops from sessions, to stop it, is at that
\* moment not busy and idle for longer than kernel_timeout, whatever acquire
\* and execute calls ran since the tick's scan.
C34_RemovedOnlyWhileIdle ==
    [][CleanupPops # NoObj =>
          ~ks[CleanupPops].is_busy /\ is_idle_timeout(ks[CleanupPops], now)]_vars


\* ---------------------------------------------------- KernelSession.stop
\* stop() of session o has run in this step, to its end or to an exception
StopRan(o) == ks'[o].stops > ks[o].stops

\* C35: whenever stop() of a session has run, also when stopping the channels
\* or shutting down the worker raised, the session's working directory is gone.
C35_StopRemovesDirectory ==
    [][\A o \in Obj :
          StopRan(o) /\ cwd(ks[o]) \in Ids => ~disk'[cwd(ks[o])].exists]_vars

\* The same for the stops in which nothing raised
CleanStopRemovesDirectory ==
    [][\A o \in Obj :
          StopRan(o) /\ ks'[o].st = "stopped" /\ cwd(ks[o]) \in Ids =>
              ~disk'[cwd(ks[o])].exists]_vars


\* ------------------------------------------------------------ the pool lock
\* The holder of the pool lock is awaiting the start() or the stop() of a
\* session: pool priming, refill, a release that stops the session, stop().
WorkerIOUnderLock ==
    \/ pool_lock = StartTask /\ svc.pc = "priming"
    \/ pool_lock = RefillTask /\ refill.pc = "creating"
    \/ pool_lock = StopTask /\ svc.pc = "stop_pool"
    \/ \E c \in Calls : pool_lock = c /\ calls[c].pc = "stop_locked"

\* An acquire waits for the pool lock while its holder awaits a worker
AcquireWaitsForWorker ==
    WorkerIOUnderLock /\ \E c \in Calls : calls[c].pc = "get_pool"

\* C36: the pool lock is never held while a worker is being started, primed
\* or shut down.
C36_LockOnlyForListOperations == ~WorkerIOUnderLock


\* ------------------------------------------------- concurrent acquisition
\* Call c found its id not in sessions and has taken or constructed a session
\* for it, which it has not yet bound to the id (L270-325)
Creating(c) ==
    /\ calls[c].op \in {"acquire", "execute"}
    /\ calls[c].pc \in {"chdir", "files", "start"}

\* C37: two calls that acquire the same id, not yet active, at the same time
\* work on one session: no second session is taken or started for the id.
C37_OneSessionPerId ==
    \A c, d \in Calls :
        Creating(c) /\ Creating(d) /\ calls[c].id = calls[d].id =>
            calls[c].s = calls[d].s


\* ----------------------------------------------------------- orphan workers
\* The sessions something still holds: sessions, the pool, a call in progress,
\* the background tasks and stop()
Held == Live(sessions, session_pool, calls, 0, refill, cleanup, svc)

\* C38: every worker that has been started and not stopped belongs to a session
\* that is in sessions, in the pool, or held by a call or task in progress.
C38_NoOrphanWorker ==
    \A o \in Obj : ks[o].st = "running" => o \in Held


\* ------------------------------------------------- what a new tenant sees
\* Call c is given a session from the pool in this step
Dispensed(c) == calls[c].pc = "get_pool" /\ calls'[c].pc = "chdir"

\* The interpreter of the session given to call c holds nothing a client's
\* code defined, as in a worker that has just been started
FreshInterpreter(c) == ~ks'[calls'[c].s].user_ns

\* The working directory call c is given holds no file and no sub-directory,
\* and its manifest no entry
EmptyDirectory(c) == disk'[calls[c].id] = CleanDir

\* No other call is in progress on the id of call c: what is there was left by
\* earlier clients
NoOtherCallOnId(c) ==
    \A d \in Calls \ {c} : calls[d].pc = "idle" \/ calls[d].id # calls[c].id

\* C39: what a client sees of a session dispensed from the pool does not depend
\* on what earlier clients of the worker or of the id executed or stored: the
\* interpreter and the working directory are those of a fresh session.
C39_NothingOfEarlierTenant ==
    [][\A c \in Calls :
          Dispensed(c) /\ NoOtherCallOnId(c) => FreshInterpreter(c) /\ EmptyDirectory(c)]_vars


\* ------------------------------------------------- the session an acquire returns
\* C40: when an acquire call returns a session, the session is bound to the
\* returned id in sessions and its worker runs, also when the id was evicted,
\* terminated or cleaned up while the call awaited its downloads (the service
\* is running: stop() has not been called).
C40_ReturnedSessionUsable ==
    \A c \in Calls :
        /\ calls[c].op = "acquire" /\ calls[c].pc = "done" /\ calls[c].ret = "ok"
        /\ svc.pc = "running"
        =>  /\ HasKey(sessions, calls[c].id)
            /\ Get(sessions, calls[c].id) = calls[c].s
            /\ ks[calls[c].s].st = "running"

==============================================================================
